---- MODULE Spec2Model ----
(***************************************************************************)
(* A model of the VCT scorigami match-data pipeline:                       *)
(*   - database.add_matches_batch : the check-then-insert ingestion loop   *)
(*   - data_fetcher.fetch_page    : the retrying transport                 *)
(*   - data_fetcher.parse_match_page : the per-map / per-table / per-row   *)
(*     extraction                                                          *)
(*   - run_scraper.run_scraper, update_matches.update_matches : the batch  *)
(*     runs built on fetch_tournament_data                                 *)
(* Each part has its own specification over the shared variables.          *)
(***************************************************************************)
EXTENDS Integers, Sequences, FiniteSets, TLC

VARIABLES
    store,      \* the rows of table `matches`, in insertion (id) order
    batch,      \* add_matches_batch: the argument `matches`
    idx,        \* add_matches_batch: 1-based position of `match` in the loop
    found,      \* add_matches_batch: cursor.fetchone() of the lookup
    inserted,   \* add_matches_batch: local counter
    skipped,    \* add_matches_batch: local counter
    pc,         \* add_matches_batch: "idle", "lookup", "decide", "returned"
    calls,      \* number of add_matches_batch calls started
    store0,     \* history: the rows of `matches` when the current call started
    faults,     \* history: how many INSERTs of the current call raised
    f_pc,       \* fetch_page: "idle", "loop", "returned"
    f_retries,  \* fetch_page: the argument `retries`
    f_attempt,  \* fetch_page: the loop variable `attempt`
    f_ret,      \* fetch_page: the returned value, "text" or "None"
    f_log,      \* fetch_page: its requests, log lines and sleeps, in order
    p_pc,       \* parse_match_page: "idle", "sections", "tables", "rows", "returned"
    p_page,     \* parse_match_page: match_id, tournament_name, match_date, team_names
    p_game,     \* parse_match_page: map_name and winning_team_idx of the current
                \*   section; history: what its score sample says
    p_table,    \* parse_match_page: team_idx, team_name and result of the current table
    p_matches,  \* parse_match_page: matches_data
    p_seen,     \* sections, tables of the section and rows of the page read so
                \*   far; history: the rows read by kind
    r_pc,       \* batch run: "idle", "tournaments", "pages", "save", "saving",
                \*   "done", "interrupted"
    r_run,      \* batch run: which entry point, dry_run, len(tournament_ids), the
                \*   position of tid, len(match_urls), the position of match_url
    r_matches,  \* fetch_tournament_data: all_matches
    r_all,      \* run_scraper: all_matches
    r_hist,     \* history of the current run: the pages listed, the pages that
                \*   failed, the pages that gave records, the rows at its start
    e_pc,       \* extract_*_from_cell: "idle", "returned"
    e_cell,     \* extract_*_from_cell: the argument `cell`
    e_kills,    \* what extract_kills_from_cell returned for the cell
    e_deaths,   \* what extract_deaths_from_cell returned for the cell
    d_pc,       \* get_match_page_urls: "idle", "returned"
    d_listing,  \* get_match_page_urls: the links of the listing page, None when
                \*   the page was not fetched
    d_urls,     \* get_match_page_urls: the returned list
    x_pc,       \* match_exists: "idle", "returned", "raised"
    x_query,    \* match_exists: its arguments
    x_result,   \* match_exists: the returned value, None when nothing returned
    v_pc,       \* verify_kill_death_balance: "idle", "returned"
    v_result,   \* verify_kill_death_balance: the returned value (None is
                \*   Python's None)
    s_pc,       \* get_database_stats: "idle", "returned"
    s_stats,    \* get_database_stats: the returned dict
    h_pc,       \* parse_match_page on a whole page: "idle", "returned"
    h_html,     \* parse_match_page on a whole page: the page
    h_matches,  \* parse_match_page on a whole page: the returned matches_data
    h_date,     \* parse_match_page on a whole page: the returned match_date
    t_pc,       \* extract_date_from_match_page: "idle", "returned"
    t_soup,     \* extract_date_from_match_page: the page
    t_now,      \* extract_date_from_match_page: datetime.now().year
    t_date,      \* extract_date_from_match_page: the returned value
    y_pc,       \* discover_all_tier1_tournaments: "idle", "years", "returned"
    y_year,     \* discover_all_tier1_tournaments: how many years the loop has done
    y_all,      \* discover_all_tier1_tournaments: all_tournaments, a set of <<id, name>>
    y_hist,      \* discover_all_tier1_tournaments: per year, what its page maps (None: failed)
    l_pc,       \* fetch_tournament_data: "idle", "pages", "returned"
    l_delay,    \* fetch_tournament_data: its delay argument
    l_urls,     \* fetch_tournament_data: len(match_urls)
    l_i,        \* fetch_tournament_data: how many pages the loop has done
    l_log,       \* fetch_tournament_data: the fetch_page and time.sleep calls made
    a_ret,       \* add_match: what the last call returned ("none" before any call)
    c_store,    \* the matches table shared by the concurrent calls
    c_log,      \* per stored row: the call that inserted it, rows its SELECT saw
    c_batch,    \* per call: its matches argument
    c_idx,      \* per call: position of its loop
    c_found,    \* per call: cursor.fetchone() of its last SELECT
    c_seen,     \* per call: table size at its last SELECT
    c_counts,   \* per call: its inserted and skipped counters
    c_pc        \* per call: idle, lookup, decide, returned

ingestVars ==
    <<store, batch, idx, found, inserted, skipped, pc, calls, store0, faults>>

fetchVars == <<f_pc, f_retries, f_attempt, f_ret, f_log>>

parseVars == <<p_pc, p_page, p_game, p_table, p_matches, p_seen>>

runVars == <<r_pc, r_run, r_matches, r_all, r_hist>>

extractVars == <<e_pc, e_cell, e_kills, e_deaths>>

discoverVars == <<d_pc, d_listing, d_urls>>

queryVars == <<x_pc, x_query, x_result, v_pc, v_result, s_pc, s_stats>>

pageVars == <<h_pc, h_html, h_matches, h_date>>

dateVars == <<t_pc, t_soup, t_now, t_date>>

enumVars == <<y_pc, y_year, y_all, y_hist>>

loopVars == <<l_pc, l_delay, l_urls, l_i, l_log>>

addVars == <<a_ret>>

concVars == <<c_store, c_log, c_batch, c_idx, c_found, c_seen, c_counts, c_pc>>

vars ==
    <<ingestVars, fetchVars, parseVars, runVars, extractVars, discoverVars,
      queryVars, pageVars, dateVars, enumVars, loopVars, addVars, concVars>>

nonIngestVars ==
    <<fetchVars, parseVars, runVars, extractVars, discoverVars, queryVars,
      pageVars, dateVars, enumVars, loopVars, addVars, concVars>>

nonFetchVars ==
    <<ingestVars, parseVars, runVars, extractVars, discoverVars, queryVars,
      pageVars, dateVars, enumVars, loopVars, addVars, concVars>>

nonParseVars ==
    <<ingestVars, fetchVars, runVars, extractVars, discoverVars, queryVars,
      pageVars, dateVars, enumVars, loopVars, addVars, concVars>>

nonRunVars ==
    <<fetchVars, parseVars, extractVars, discoverVars, queryVars, pageVars,
      dateVars, enumVars, loopVars, addVars, concVars>>

nonExtractVars ==
    <<ingestVars, fetchVars, parseVars, runVars, discoverVars, queryVars,
      pageVars, dateVars, enumVars, loopVars, addVars, concVars>>

nonDiscoverVars ==
    <<ingestVars, fetchVars, parseVars, runVars, extractVars, queryVars,
      pageVars, dateVars, enumVars, loopVars, addVars, concVars>>

nonQueryVars ==
    <<ingestVars, fetchVars, parseVars, runVars, extractVars, discoverVars,
      pageVars, dateVars, enumVars, loopVars, addVars, concVars>>

nonPageVars ==
    <<ingestVars, fetchVars, parseVars, runVars, extractVars, discoverVars,
      queryVars, dateVars, enumVars, loopVars, addVars, concVars>>

nonDateVars ==
    <<ingestVars, fetchVars, parseVars, runVars, extractVars, discoverVars,
      queryVars, pageVars, enumVars, loopVars, addVars, concVars>>

nonEnumVars ==
    <<ingestVars, fetchVars, parseVars, runVars, extractVars, discoverVars,
      queryVars, pageVars, dateVars, loopVars, addVars, concVars>>

nonLoopVars ==
    <<ingestVars, fetchVars, parseVars, runVars, extractVars, discoverVars,
      queryVars, pageVars, dateVars, enumVars, addVars, concVars>>

nonAddVars ==
    <<fetchVars, parseVars, runVars, extractVars, discoverVars, queryVars,
      pageVars, dateVars, enumVars, loopVars, concVars>>

nonConcVars ==
    <<ingestVars, fetchVars, parseVars, runVars, extractVars, discoverVars,
      queryVars, pageVars, dateVars, enumVars, loopVars, addVars>>

(***************************************************************************)
(* Bounds                                                                  *)
(***************************************************************************)
MaxBatch == 2
MaxCalls == 2
MaxRetries == 4
MaxSections == 2
MaxTables == 2
MaxPageRows == 2
MaxTournaments == 2
MaxCellText == 2
MaxLinks == 3
MaxYears == 4
MaxUrls == 3
MaxConcBatch == 2

(***************************************************************************)
(* Records.  A record is one dict of data_fetcher.parse_match_page; the    *)
(* table row keeps the same columns.  `kills` stands for the payload       *)
(* columns (kills, deaths, result, team, match_date, tournament_id), all   *)
(* of which add_matches_batch copies and never reads.                      *)
(***************************************************************************)
NoId == "None"

MatchIds == {NoId, "m1"}

Descriptions == {"d1", "d2"}

Maps == {"Ascent"}

Players == {"p1"}

KillValues == {0, 1}

Records ==
    [description : Descriptions, map : Maps, player : Players,
     kills : KillValues, match_id : MatchIds]

\* Python truthiness of match.get('match_id'): None (and '') are falsy.
Truthy(match_id) == match_id # NoId

RECURSIVE SeqsUpTo(_, _)
SeqsUpTo(S, n) ==
    IF n = 0 THEN {<<>>}
    ELSE LET shorter == SeqsUpTo(S, n - 1)
         IN  shorter \cup {Append(s, x) : s \in {t \in shorter : Len(t) = n - 1}, x \in S}

Batches == SeqsUpTo(Records, MaxBatch)

Range(s) == {s[i] : i \in 1..Len(s)}

(***************************************************************************)
(* add_matches_batch                                                       *)
(***************************************************************************)
\* SELECT 1 FROM matches WHERE match_id = ? AND map = ? AND player = ?
SelectByMatchId(rows, match_id, map_name, player) ==
    \E i \in 1..Len(rows) :
        /\ rows[i].match_id # NoId          \* NULL = ? is never true in SQL
        /\ rows[i].match_id = match_id
        /\ rows[i].map = map_name
        /\ rows[i].player = player

\* SELECT 1 FROM matches WHERE description = ? AND map = ? AND player = ?
SelectByDescription(rows, description, map_name, player) ==
    \E i \in 1..Len(rows) :
        /\ rows[i].description = description
        /\ rows[i].map = map_name
        /\ rows[i].player = player

\* A lookup that keys every record on its description, whatever its match_id.
LookupRowByDescription(rows, match) ==
    SelectByDescription(rows, match.description, match.map, match.player)

\* A lookup whose match_id branch also compares the description.
LookupRowIdAndDescription(rows, match) ==
    IF Truthy(match.match_id)
    THEN \E i \in 1..Len(rows) :
            /\ rows[i].match_id = match.match_id
            /\ rows[i].description = match.description
            /\ rows[i].map = match.map
            /\ rows[i].player = match.player
    ELSE SelectByDescription(rows, match.description, match.map, match.player)

\* The lookup of one loop iteration: which SELECT runs, and cursor.fetchone().
LookupRow(rows, match) ==
    IF Truthy(match.match_id)
    THEN SelectByMatchId(rows, match.match_id, match.map, match.player)
    ELSE SelectByDescription(rows, match.description, match.map, match.player)

\* INSERT INTO matches (...) VALUES (...), committed at once.
InsertRow(rows, match) == Append(rows, match)

\* add_matches_batch(matches) is called: conn opened, counters zeroed.
BatchCall ==
    /\ pc = "idle"
    /\ calls < MaxCalls
    /\ \E b \in Batches : batch' = b
    /\ idx' = 1
    /\ inserted' = 0
    /\ skipped' = 0
    /\ found' = FALSE
    /\ pc' = "lookup"
    /\ calls' = calls + 1
    /\ store0' = store
    /\ faults' = 0
    /\ UNCHANGED store
    /\ UNCHANGED nonIngestVars

\* for match in matches: the SELECT of the current record.
BatchLookup ==
    /\ pc = "lookup"
    /\ idx <= Len(batch)
    /\ found' = LookupRow(store, batch[idx])
    /\ pc' = "decide"
    /\ UNCHANGED <<store, batch, idx, inserted, skipped, calls, store0, faults>>
    /\ UNCHANGED nonIngestVars

\* An insert-or-merge skip: the stored row takes the incoming record's fields.
BatchSkipMerging ==
    /\ pc = "decide"
    /\ found
    /\ \E i \in 1..Len(store) :
          /\ store[i].map = batch[idx].map
          /\ store[i].player = batch[idx].player
          /\ IF Truthy(batch[idx].match_id)
             THEN store[i].match_id = batch[idx].match_id
             ELSE store[i].description = batch[idx].description
          /\ store' = [store EXCEPT ![i] = batch[idx]]
    /\ skipped' = skipped + 1
    /\ idx' = idx + 1
    /\ pc' = "lookup"
    /\ UNCHANGED <<batch, found, inserted, calls, store0, faults>>
    /\ UNCHANGED nonIngestVars

\* if cursor.fetchone(): skipped += 1; continue
BatchSkip ==
    /\ pc = "decide"
    /\ found
    /\ skipped' = skipped + 1
    /\ idx' = idx + 1
    /\ pc' = "lookup"
    /\ UNCHANGED <<store, batch, found, inserted, calls, store0, faults>>
    /\ UNCHANGED nonIngestVars

\* try: INSERT; commit; inserted += 1
BatchInsert ==
    /\ pc = "decide"
    /\ ~found
    /\ store' = InsertRow(store, batch[idx])
    /\ inserted' = inserted + 1
    /\ idx' = idx + 1
    /\ pc' = "lookup"
    /\ UNCHANGED <<batch, found, skipped, calls, store0, faults>>
    /\ UNCHANGED nonIngestVars

\* A failed INSERT that ends the call.
BatchInsertFailsAborting ==
    /\ pc = "decide"
    /\ ~found
    /\ skipped' = skipped + 1
    /\ pc' = "returned"
    /\ faults' = faults + 1
    /\ UNCHANGED <<store, batch, idx, found, inserted, calls, store0>>
    /\ UNCHANGED nonIngestVars

\* except Exception: skipped += 1   (the INSERT raised: nothing is stored)
BatchInsertFails ==
    /\ pc = "decide"
    /\ ~found
    /\ skipped' = skipped + 1
    /\ idx' = idx + 1
    /\ pc' = "lookup"
    /\ faults' = faults + 1
    /\ UNCHANGED <<store, batch, found, inserted, calls, store0>>
    /\ UNCHANGED nonIngestVars

\* The loop is over: conn.close(); return inserted, skipped
BatchReturn ==
    /\ pc = "lookup"
    /\ idx > Len(batch)
    /\ pc' = "returned"
    /\ UNCHANGED <<store, batch, idx, found, inserted, skipped, calls, store0, faults>>
    /\ UNCHANGED nonIngestVars

\* add_match(description, map_name, player, kills, ...): the INSERT, with no
\* lookup before it; return True
AddMatch ==
    /\ pc = "idle"
    /\ calls < MaxCalls
    /\ \E match \in Records : store' = InsertRow(store, match)
    /\ store0' = store
    /\ calls' = calls + 1
    /\ a_ret' = "True"
    /\ UNCHANGED <<batch, idx, found, inserted, skipped, pc, faults>>
    /\ UNCHANGED nonAddVars

\* except Exception: return False   (the INSERT raised: nothing is stored)
AddMatchFails ==
    /\ pc = "idle"
    /\ calls < MaxCalls
    /\ store0' = store
    /\ calls' = calls + 1
    /\ a_ret' = "False"
    /\ UNCHANGED <<store, batch, idx, found, inserted, skipped, pc, faults>>
    /\ UNCHANGED nonAddVars

AddIdle == a_ret = "none"

\* The processes that may call add_matches_batch at the same time.
Writers == {1, 2}

ConcIdle ==
    /\ c_store = <<>>
    /\ c_log = <<>>
    /\ c_batch = [w \in Writers |-> <<>>]
    /\ c_idx = [w \in Writers |-> 0]
    /\ c_found = [w \in Writers |-> FALSE]
    /\ c_seen = [w \in Writers |-> 0]
    /\ c_counts = [w \in Writers |-> <<0, 0>>]
    /\ c_pc = [w \in Writers |-> "idle"]

\* The caller has read the returned pair; the call's locals are gone.
BatchDone ==
    /\ pc = "returned"
    /\ batch' = <<>>
    /\ idx' = 0
    /\ found' = FALSE
    /\ inserted' = 0
    /\ skipped' = 0
    /\ pc' = "idle"
    /\ faults' = 0
    /\ store0' = store
    /\ UNCHANGED <<store, calls>>
    /\ UNCHANGED nonIngestVars

\* The whole call as a function, when no INSERT raises: the rows afterwards
\* and the returned pair.
RECURSIVE AddMatchesBatch(_, _)
AddMatchesBatch(rows, matches) ==
    IF matches = <<>>
    THEN [store |-> rows, inserted |-> 0, skipped |-> 0]
    ELSE LET match == Head(matches)
             hit == LookupRow(rows, match)
             rest == AddMatchesBatch(IF hit THEN rows ELSE InsertRow(rows, match),
                                     Tail(matches))
         IN  [store |-> rest.store,
              inserted |-> rest.inserted + (IF hit THEN 0 ELSE 1),
              skipped |-> rest.skipped + (IF hit THEN 1 ELSE 0)]

(***************************************************************************)
(* fetch_page                                                              *)
(***************************************************************************)
\* What requests.get / raise_for_status raise inside the try block: the
\* subclasses of requests.exceptions.RequestException (a non-2xx status is
\* HTTPError).
RequestErrors == {"HTTPError", "ConnectionError", "Timeout"}

RECURSIVE Pow2(_)
Pow2(k) == IF k = 0 THEN 1 ELSE 2 * Pow2(k - 1)

Event(op, n, e) == [op |-> op, n |-> n, e |-> e]

\* A backoff of one second after every failed attempt but the last.
BackoffEventsConstant(attempt, retries) ==
    IF attempt < retries - 1
    THEN <<Event("sleep", 1, "-")>>
    ELSE <<>>

\* time.sleep(2 ** attempt), only when another attempt follows.
BackoffEvents(attempt, retries) ==
    IF attempt < retries - 1
    THEN <<Event("sleep", Pow2(attempt), "-")>>
    ELSE <<>>

\* fetch_page(url, retries) is called.
FetchCall ==
    /\ f_pc = "idle"
    /\ \E n \in 0..MaxRetries : f_retries' = n
    /\ f_attempt' = 0
    /\ f_ret' = "pending"
    /\ f_log' = <<>>
    /\ f_pc' = "loop"
    /\ UNCHANGED nonFetchVars

\* A successful attempt after which the loop goes on.
FetchAttemptSucceedsRetrying ==
    /\ f_pc = "loop"
    /\ f_attempt < f_retries
    /\ f_log' = Append(f_log, Event("get", f_attempt, "-"))
    /\ f_ret' = "text"
    /\ f_attempt' = f_attempt + 1
    /\ UNCHANGED <<f_pc, f_retries>>
    /\ UNCHANGED nonFetchVars

\* An attempt whose response is 2xx: return response.text
FetchAttemptSucceeds ==
    /\ f_pc = "loop"
    /\ f_attempt < f_retries
    /\ f_log' = Append(f_log, Event("get", f_attempt, "-"))
    /\ f_ret' = "text"
    /\ f_pc' = "returned"
    /\ UNCHANGED <<f_retries, f_attempt>>
    /\ UNCHANGED nonFetchVars

\* An attempt that raises a RequestException: warning, backoff, next attempt.
FetchAttemptFails ==
    /\ f_pc = "loop"
    /\ f_attempt < f_retries
    /\ \E e \in RequestErrors :
          f_log' = f_log \o <<Event("get", f_attempt, "-"),
                              Event("warning", f_attempt + 1, e)>>
                         \o BackoffEvents(f_attempt, f_retries)
    /\ f_attempt' = f_attempt + 1
    /\ UNCHANGED <<f_pc, f_retries, f_ret>>
    /\ UNCHANGED nonFetchVars

\* range(retries) is exhausted: logger.error(...); return None
FetchGiveUp ==
    /\ f_pc = "loop"
    /\ f_attempt >= f_retries
    /\ f_log' = Append(f_log, Event("error", f_retries, "-"))
    /\ f_ret' = "None"
    /\ f_pc' = "returned"
    /\ UNCHANGED <<f_retries, f_attempt>>
    /\ UNCHANGED nonFetchVars

FetchIdle ==
    /\ f_pc = "idle"
    /\ f_retries = 0
    /\ f_attempt = 0
    /\ f_ret = "pending"
    /\ f_log = <<>>

(***************************************************************************)
(* Text.  A text is a sequence of one-character strings; None is <<>> and  *)
(* a present value x is <<x>>, for absent DOM nodes and for Optional[int]. *)
(***************************************************************************)
None == <<>>

Some(x) == <<x>>

Digits == {"0", "1", "2", "3", "4", "5", "6", "7", "8", "9"}

DigitValue(c) ==
    CASE c = "0" -> 0 [] c = "1" -> 1 [] c = "2" -> 2 [] c = "3" -> 3
      [] c = "4" -> 4 [] c = "5" -> 5 [] c = "6" -> 6 [] c = "7" -> 7
      [] c = "8" -> 8 [] c = "9" -> 9

DigitChar(n) == CHOOSE c \in Digits : DigitValue(c) = n

\* str.isdigit(), and a full match of \d+
IsDigits(t) == Len(t) > 0 /\ \A i \in 1..Len(t) : t[i] \in Digits

RECURSIVE DecimalValue(_)
DecimalValue(t) ==
    IF t = <<>> THEN 0
    ELSE 10 * DecimalValue(SubSeq(t, 1, Len(t) - 1)) + DigitValue(t[Len(t)])

\* str.strip(), and the strip of get_text(strip=True) on one text node
Strip(t) ==
    LET kept == {i \in 1..Len(t) : t[i] # " "}
    IN  IF kept = {} THEN <<>>
        ELSE SubSeq(t, CHOOSE i \in kept : \A j \in kept : i <= j,
                       CHOOSE i \in kept : \A j \in kept : i >= j)

\* re.sub(r'\s+', ' ', t)
RECURSIVE CollapseSpaces(_)
CollapseSpaces(t) ==
    IF Len(t) <= 1 THEN t
    ELSE IF t[1] = " " /\ t[2] = " " THEN CollapseSpaces(Tail(t))
    ELSE <<t[1]>> \o CollapseSpaces(Tail(t))

\* The longest run of digits of t that starts at position i (\d+ at i).
DigitRun(t, i) ==
    LET ends == {k \in (i - 1)..Len(t) : \A m \in i..k : t[m] \in Digits}
    IN  SubSeq(t, i, CHOOSE k \in ends : \A m \in ends : m <= k)

\* The first position at or after i that holds no space (\s* at i).
SkipSpaces(t, i) ==
    LET stops == {k \in i..(Len(t) + 1) : k = Len(t) + 1 \/ t[k] # " "}
    IN  CHOOSE k \in stops : \A m \in stops : k <= m

\* int(text): an optional sign and digits, surrounding whitespace ignored;
\* ValueError is None.
PyInt(t) ==
    LET u == Strip(t)
    IN  IF IsDigits(u) THEN Some(DecimalValue(u))
        ELSE IF Len(u) >= 2 /\ u[1] = "+" /\ IsDigits(Tail(u))
             THEN Some(DecimalValue(Tail(u)))
        ELSE IF Len(u) >= 2 /\ u[1] = "-" /\ IsDigits(Tail(u))
             THEN Some(0 - DecimalValue(Tail(u)))
        ELSE None

(***************************************************************************)
(* parse_match_page: the extraction functions                              *)
(***************************************************************************)
\* match = re.search(r'/(\d+)/', match_url); match_url is VLR_BASE_URL + href
\* and the base holds no /digits/ segment, so the search is one over href.
MatchIdOf(href) ==
    LET hits == {i \in 1..Len(href) :
                    /\ href[i] = "/"
                    /\ DigitRun(href, i + 1) # <<>>
                    /\ i + Len(DigitRun(href, i + 1)) + 1 <= Len(href)
                    /\ href[i + Len(DigitRun(href, i + 1)) + 1] = "/"}
    IN  IF hits = {} THEN None
        ELSE Some(DigitRun(href, (CHOOSE i \in hits : \A j \in hits : i <= j) + 1))

\* tournament_name: "" without the header block, else its stripped text.
TournamentName(header_event) ==
    IF header_event = None THEN <<>> ELSE Strip(header_event[1])

\* A header text that is kept as a team name: non-empty and not all digits.
RECURSIVE KeptTitles(_)
KeptTitles(titles) ==
    IF titles = <<>> THEN <<>>
    ELSE LET text == Strip(Head(titles))
         IN  (IF text # <<>> /\ ~IsDigits(text) THEN <<text>> ELSE <<>>)
                \o KeptTitles(Tail(titles))

RECURSIVE StripAll(_)
StripAll(texts) ==
    IF texts = <<>> THEN <<>> ELSE <<Strip(Head(texts))>> \o StripAll(Tail(texts))

\* team_names: the header link texts; with fewer than two, the first two
\* wf-title-med texts that are kept are appended.
TeamNames(link_texts, title_texts) ==
    LET names == StripAll(link_texts)
    IN  IF Len(names) < 2
        THEN names \o KeptTitles(SubSeq(title_texts, 1,
                                        IF Len(title_texts) < 2 THEN Len(title_texts) ELSE 2))
        ELSE names

\* re.sub(r'\d+:\d+.*', '', map_text).strip()
CutAtScore(t) ==
    LET hits == {i \in 1..Len(t) :
                    /\ DigitRun(t, i) # <<>>
                    /\ i + Len(DigitRun(t, i)) + 1 <= Len(t)
                    /\ t[i + Len(DigitRun(t, i))] = ":"
                    /\ t[i + Len(DigitRun(t, i)) + 1] \in Digits}
    IN  IF hits = {} THEN Strip(t)
        ELSE Strip(SubSeq(t, 1, (CHOOSE i \in hits : \A j \in hits : i <= j) - 1))

\* re.sub(r'\s*PICK.*', '', map_name).strip()
CutAtPick(t) ==
    LET hits == {i \in 1..(Len(t) - 3) : SubSeq(t, i, i + 3) = <<"P", "I", "C", "K">>}
    IN  IF hits = {} THEN Strip(t)
        ELSE Strip(SubSeq(t, 1, (CHOOSE i \in hits : \A j \in hits : i <= j) - 1))

\* map_name of a section: None when it has no div.map (the section is
\* skipped), else the cleaned header text, which may be empty.
MapName(map_div) ==
    IF map_div = None THEN <<>> ELSE CutAtPick(CutAtScore(Strip(map_div[1])))

\* team_scores: the score texts that int() accepts, in order.
RECURSIVE TeamScores(_)
TeamScores(score_texts) ==
    IF score_texts = <<>> THEN <<>>
    ELSE PyInt(Head(score_texts)) \o TeamScores(Tail(score_texts))

\* winning_team_idx scored from the last two parsed scores.
WinningTeamIdxLastTwo(team_scores) ==
    LET n == Len(team_scores)
    IN  IF n >= 2
        THEN IF team_scores[n - 1] > team_scores[n] THEN Some(0)
             ELSE IF team_scores[n] > team_scores[n - 1] THEN Some(1)
             ELSE None
        ELSE None

\* winning_team_idx: 0 or 1 by the first two parsed scores, None when they
\* are equal or fewer than two.
WinningTeamIdx(team_scores) ==
    IF Len(team_scores) >= 2
    THEN IF team_scores[1] > team_scores[2] THEN Some(0)
         ELSE IF team_scores[2] > team_scores[1] THEN Some(1)
         ELSE None
    ELSE None

\* A result that calls the first table the winner's whenever there is one.
TableResultFirstWins(winning_team_idx, team_idx) ==
    IF winning_team_idx # None
    THEN IF team_idx = 0 THEN "Win" ELSE "Loss"
    ELSE "Tie"

\* result of the table with index team_idx
TableResult(winning_team_idx, team_idx) ==
    IF winning_team_idx # None
    THEN IF team_idx = winning_team_idx[1] THEN "Win" ELSE "Loss"
    ELSE "Tie"

\* team_name = team_names[team_idx] if team_idx < len(team_names)
\*             else f"Team {team_idx + 1}"
TeamName(team_names, team_idx) ==
    IF team_idx < Len(team_names) THEN team_names[team_idx + 1]
    ELSE <<"T", "e", "a", "m", " ", DigitChar(team_idx + 1)>>

\* extract_kills_from_cell: the mod-both span as an int, else the leading
\* digits of the cell text.
ExtractKills(cell) ==
    IF cell.span # None /\ PyInt(cell.span[1]) # None THEN PyInt(cell.span[1])
    ELSE LET run == DigitRun(Strip(cell.text), 1)
         IN  IF run # <<>> THEN Some(DecimalValue(run)) ELSE None

\* extract_deaths_from_cell: the mod-both span as an int, else the digits of
\* the first "/ N" of the cell text.
ExtractDeaths(cell) ==
    IF cell.span # None /\ PyInt(cell.span[1]) # None THEN PyInt(cell.span[1])
    ELSE LET text == Strip(cell.text)
             hits == {i \in 1..Len(text) :
                         /\ text[i] = "/"
                         /\ DigitRun(text, SkipSpaces(text, i + 1)) # <<>>}
         IN  IF hits = {} THEN None
             ELSE Some(DecimalValue(DigitRun(text,
                     SkipSpaces(text, (CHOOSE i \in hits : \A j \in hits : i <= j) + 1))))

\* player_name: the bold div's text, else the cell's text with whitespace
\* collapsed.
PlayerName(row) ==
    IF row.bold # None THEN Strip(row.bold[1])
    ELSE Strip(CollapseSpaces(Strip(row.cell0)))

\* description: "{tournament} - {team1} vs {team2}" with two team names,
\* else the tournament name.
Description(tournament_name, team_names) ==
    IF Len(team_names) >= 2
    THEN tournament_name \o <<" ", "-", " ">> \o team_names[1]
            \o <<" ", "v", "s", " ">> \o team_names[2]
    ELSE tournament_name

(***************************************************************************)
(* The read-only queries of database.py on a table of rows that has the    *)
(* kills and the deaths column.                                            *)
(***************************************************************************)
Rows ==
    [description : Descriptions, map : Maps, player : Players,
     kills : KillValues, deaths : KillValues, match_id : MatchIds]

Tables == SeqsUpTo(Rows, MaxBatch)

Query(match_id, map_name, player) ==
    [match_id |-> match_id, map_name |-> map_name, player |-> player]

NoQuery == Query(NoId, "", "")

\* match_exists(match_id, map_name, player): the else branch reads the name
\* `description`, which is neither a parameter nor a global of the module.
MatchExists(rows, match_id, map_name, player) ==
    IF Truthy(match_id)
    THEN [pc |-> "returned",
          result |-> Some(SelectByMatchId(rows, match_id, map_name, player))]
    ELSE [pc |-> "raised", result |-> None]

MatchExistsCall ==
    /\ x_pc = "idle"
    /\ \E match_id \in MatchIds \cup {"m2"}, map_name \in Maps, player \in Players :
          /\ x_query' = Query(match_id, map_name, player)
          /\ x_pc' = MatchExists(store, match_id, map_name, player).pc
          /\ x_result' = MatchExists(store, match_id, map_name, player).result
    /\ UNCHANGED <<v_pc, v_result, s_pc, s_stats>>
    /\ UNCHANGED nonQueryVars

Column(rows, c) == [i \in 1..Len(rows) |-> rows[i][c]]

RECURSIVE Total(_)
Total(ns) == IF ns = <<>> THEN 0 ELSE Head(ns) + Total(Tail(ns))

\* SELECT SUM(c) FROM matches: NULL (None) over no rows; the columns are
\* NOT NULL.
SqlSum(ns) == IF ns = <<>> THEN None ELSE Some(Total(ns))

\* a - b in SQL: NULL when an operand is NULL.
SqlMinus(a, b) == IF a = None \/ b = None THEN None ELSE Some(a[1] - b[1])

\* v or 0 in Python, for v an int or None.
OrZero(v) == IF v = None \/ v = Some(0) THEN 0 ELSE v[1]

\* result = SELECT SUM(kills) - SUM(deaths) ... fetchone(): an aggregate
\* query has one row, so `result[0] if result else 0` is result[0].
VerifyKillDeathBalance(rows) ==
    LET result == <<SqlMinus(SqlSum(Column(rows, "kills")),
                             SqlSum(Column(rows, "deaths")))>>
    IN  IF result # <<>> THEN result[1] ELSE Some(0)

GetDatabaseStats(rows) ==
    LET total_kills == OrZero(SqlSum(Column(rows, "kills")))
        total_deaths == OrZero(SqlSum(Column(rows, "deaths")))
    IN  [total_matches |-> Len(rows),
         unique_players |-> Cardinality(Range(Column(rows, "player"))),
         unique_maps |-> Cardinality(Range(Column(rows, "map"))),
         unique_tournaments |-> Cardinality(Range(Column(rows, "description"))),
         total_kills |-> total_kills,
         total_deaths |-> total_deaths,
         kd_balance |-> total_kills - total_deaths]

VerifyCall ==
    /\ v_pc = "idle"
    /\ v_result' = VerifyKillDeathBalance(store)
    /\ v_pc' = "returned"
    /\ UNCHANGED <<x_pc, x_query, x_result, s_pc, s_stats>>
    /\ UNCHANGED nonQueryVars

StatsCall ==
    /\ s_pc = "idle"
    /\ s_stats' = GetDatabaseStats(store)
    /\ s_pc' = "returned"
    /\ UNCHANGED <<x_pc, x_query, x_result, v_pc, v_result>>
    /\ UNCHANGED nonQueryVars

QueryIdle ==
    /\ x_pc = "idle"
    /\ x_query = NoQuery
    /\ x_result = None
    /\ v_pc = "idle"
    /\ v_result = None
    /\ s_pc = "idle"
    /\ s_stats = GetDatabaseStats(<<>>)

(***************************************************************************)
(* get_match_page_urls.  `matchPage` says what a sample link is; no        *)
(* definition that models the code reads it.                               *)
(***************************************************************************)
VLR_BASE_URL == "https://www.vlr.gg"

\* re.match(r'^/\d+/', href)
StartsWithNumericSegment(href) ==
    /\ Len(href) >= 1
    /\ href[1] = "/"
    /\ DigitRun(href, 2) # <<>>
    /\ Len(href) >= 2 + Len(DigitRun(href, 2))
    /\ href[2 + Len(DigitRun(href, 2))] = "/"

\* sub in t
Contains(t, sub) ==
    \E i \in 1..(Len(t) - Len(sub) + 1) : SubSeq(t, i, i + Len(sub) - 1) = sub

\* A link test that keeps event links.
IsMatchHrefWithEvents(href) ==
    /\ href # <<>>
    /\ StartsWithNumericSegment(href)

\* if href and re.match(r'^/\d+/', href): if '/event/' in href: continue
IsMatchHref(href) ==
    /\ href # <<>>
    /\ StartsWithNumericSegment(href)
    /\ ~Contains(href, <<"/", "e", "v", "e", "n", "t", "/">>)

\* matches: f"{VLR_BASE_URL}{href}" of every kept link, in page order.
RECURSIVE MatchUrls(_)
MatchUrls(hrefs) ==
    IF hrefs = <<>> THEN <<>>
    ELSE (IF IsMatchHref(Head(hrefs)) THEN <<<<VLR_BASE_URL>> \o Head(hrefs)>> ELSE <<>>)
            \o MatchUrls(Tail(hrefs))

\* A result that keeps every occurrence of a link.
UniqueMatchesKeepingAll(matches) == {matches}

\* list(set(matches)): each url once, in whatever order the set gives.
UniqueMatches(matches) ==
    LET urls == {matches[i] : i \in 1..Len(matches)}
    IN  {u \in SeqsUpTo(urls, Cardinality(urls)) :
            Len(u) = Cardinality(urls) /\ {u[i] : i \in 1..Len(u)} = urls}

\* What get_match_page_urls may return: [] when the listing was not fetched.
GetMatchPageUrls(hrefs) ==
    IF hrefs = None THEN {<<>>} ELSE UniqueMatches(MatchUrls(hrefs[1]))

Link(href, matchPage) == [href |-> href, matchPage |-> matchPage]

LinkSamples ==
    { Link(<<"/", "1", "/", "a">>, TRUE),
      Link(<<"/", "2", "/", "b">>, TRUE),
      Link(<<"/", "1", "2", "/", "a">>, TRUE),
      Link(<<"/", "3", "/", "e", "v", "e", "n", "t", "/", "x">>, FALSE),
      Link(<<"/", "e", "v", "e", "n", "t", "/", "4">>, FALSE),
      Link(<<"5", "/", "c">>, FALSE),
      Link(<<"/", "x", "/", "6", "/">>, FALSE),
      Link(<<"/", "7">>, FALSE),
      Link(<<"/", "1", "a", "/">>, FALSE),
      Link(<<>>, FALSE) }

Hrefs(links) == [i \in 1..Len(links) |-> links[i].href]

\* get_match_page_urls(tournament_id) is called: the listing is not fetched,
\* or it holds some links.
DiscoverCall ==
    /\ d_pc = "idle"
    /\ \E listing \in {None} \cup {Some(links) : links \in SeqsUpTo(LinkSamples, MaxLinks)} :
          /\ d_listing' = listing
          /\ \E urls \in GetMatchPageUrls(IF listing = None THEN None
                                           ELSE Some(Hrefs(listing[1]))) :
                d_urls' = urls
    /\ d_pc' = "returned"
    /\ UNCHANGED nonDiscoverVars

DiscoverIdle ==
    /\ d_pc = "idle"
    /\ d_listing = None
    /\ d_urls = <<>>

(***************************************************************************)
(* extract_kills_from_cell and extract_deaths_from_cell on the cells of a  *)
(* stats table: an optional span.mod-both first, then the other text of    *)
(* the cell.                                                               *)
(***************************************************************************)
CellChars == {"3", "-", "/", " "}

CellTexts == SeqsUpTo(CellChars, MaxCellText)

\* cell.get_text(strip=True): the stripped text nodes of the cell, joined.
CellOf(span, rest) ==
    [span |-> span,
     text |-> (IF span = <<>> THEN <<>> ELSE Strip(span[1])) \o Strip(rest)]

\* extract_kills_from_cell(cell) and extract_deaths_from_cell(cell) are
\* called on a cell.
ExtractCall ==
    /\ e_pc = "idle"
    /\ \E span \in {<<>>} \cup {<<t>> : t \in CellTexts}, rest \in CellTexts :
          /\ e_cell' = CellOf(span, rest)
          /\ e_kills' = ExtractKills(CellOf(span, rest))
          /\ e_deaths' = ExtractDeaths(CellOf(span, rest))
    /\ e_pc' = "returned"
    /\ UNCHANGED nonExtractVars

ExtractIdle ==
    /\ e_pc = "idle"
    /\ e_cell = CellOf(<<>>, <<>>)
    /\ e_kills = <<>>
    /\ e_deaths = <<>>

(***************************************************************************)
(* extract_date_from_match_page.  A soup is the moment-tz-convert div (its *)
(* data-utc-ts attribute and its text) and the text nodes of the page.     *)
(* `date` and `denotes` say what a sample is; no definition that models    *)
(* the code reads them.  Month and day names are written as the samples    *)
(* write them (strptime also accepts other letter cases).                  *)
(***************************************************************************)
MonthNames ==
    << <<"J", "a", "n", "u", "a", "r", "y">>,
       <<"F", "e", "b", "r", "u", "a", "r", "y">>,
       <<"M", "a", "r", "c", "h">>,
       <<"A", "p", "r", "i", "l">>,
       <<"M", "a", "y">>,
       <<"J", "u", "n", "e">>,
       <<"J", "u", "l", "y">>,
       <<"A", "u", "g", "u", "s", "t">>,
       <<"S", "e", "p", "t", "e", "m", "b", "e", "r">>,
       <<"O", "c", "t", "o", "b", "e", "r">>,
       <<"N", "o", "v", "e", "m", "b", "e", "r">>,
       <<"D", "e", "c", "e", "m", "b", "e", "r">> >>

DayNames ==
    << <<"M", "o", "n", "d", "a", "y">>,
       <<"T", "u", "e", "s", "d", "a", "y">>,
       <<"W", "e", "d", "n", "e", "s", "d", "a", "y">>,
       <<"T", "h", "u", "r", "s", "d", "a", "y">>,
       <<"F", "r", "i", "d", "a", "y">>,
       <<"S", "a", "t", "u", "r", "d", "a", "y">>,
       <<"S", "u", "n", "d", "a", "y">> >>

\* Positions: 0 is "no match", else the position after what was matched.
Lit(t, i, c) == IF i > 0 /\ i <= Len(t) /\ t[i] = c THEN i + 1 ELSE 0

\* \s+ at i
Spaces1(t, i) == IF i > 0 /\ i <= Len(t) /\ t[i] = " " THEN SkipSpaces(t, i) ELSE 0

\* A directive for a number of minlen..maxlen digits with a value in lo..hi,
\* followed by a non-digit or the end.
NumEnd(t, i, minlen, maxlen, lo, hi) ==
    IF /\ i > 0
       /\ Len(DigitRun(t, i)) \in minlen..maxlen
       /\ DecimalValue(DigitRun(t, i)) \in lo..hi
    THEN i + Len(DigitRun(t, i))
    ELSE 0

NumVal(t, i) == DecimalValue(DigitRun(t, i))

WordAt(t, i, w) == i + Len(w) - 1 <= Len(t) /\ SubSeq(t, i, i + Len(w) - 1) = w

\* %B and %A: which of the names stands at i (0 when none does).
NameIdx(t, i, names) ==
    IF i > 0 /\ \E k \in 1..Len(names) : WordAt(t, i, names[k])
    THEN CHOOSE k \in 1..Len(names) : WordAt(t, i, names[k])
    ELSE 0

NameEnd(t, i, names) ==
    IF NameIdx(t, i, names) = 0 THEN 0 ELSE i + Len(names[NameIdx(t, i, names)])

IsLeap(year) == (year % 4 = 0 /\ year % 100 # 0) \/ year % 400 = 0

DaysIn(month, year) ==
    IF month = 2 THEN (IF IsLeap(year) THEN 29 ELSE 28)
    ELSE IF month \in {4, 6, 9, 11} THEN 30 ELSE 31

\* datetime(year, month, day): ValueError (None) when the day is out of range
\* for the month.
Datetime(year, month, day) ==
    IF day <= DaysIn(month, year)
    THEN Some([year |-> year, month |-> month, day |-> day])
    ELSE None

\* datetime.strptime(t, '%Y-%m-%d %H:%M:%S'); ValueError is None.
StrptimeTimestamp(t) ==
    LET y  == NumEnd(t, 1, 4, 4, 1, 9999)
        m0 == Lit(t, y, "-")
        m  == NumEnd(t, m0, 1, 2, 1, 12)
        d0 == Lit(t, m, "-")
        d  == NumEnd(t, d0, 1, 2, 1, 31)
        h0 == Spaces1(t, d)
        h  == NumEnd(t, h0, 1, 2, 0, 23)
        n0 == Lit(t, h, ":")
        n  == NumEnd(t, n0, 1, 2, 0, 59)
        s0 == Lit(t, n, ":")
        e  == NumEnd(t, s0, 1, 2, 0, 61)
    IN  IF e = Len(t) + 1
        THEN Datetime(NumVal(t, 1), NumVal(t, m0), NumVal(t, d0))
        ELSE None

\* datetime.strptime(t, '%B %d, %Y')
StrptimeMonthDayYear(t) ==
    LET m  == NameEnd(t, 1, MonthNames)
        d0 == Spaces1(t, m)
        d  == NumEnd(t, d0, 1, 2, 1, 31)
        y0 == Spaces1(t, Lit(t, d, ","))
        y  == NumEnd(t, y0, 4, 4, 1, 9999)
    IN  IF y = Len(t) + 1
        THEN Datetime(NumVal(t, y0), NameIdx(t, 1, MonthNames), NumVal(t, d0))
        ELSE None

\* datetime.strptime(t, '%A, %B %d'): the year is 1900, the day name is not
\* compared with the date.
StrptimeDayMonthDay(t) ==
    LET m0 == Spaces1(t, Lit(t, NameEnd(t, 1, DayNames), ","))
        m  == NameEnd(t, m0, MonthNames)
        d0 == Spaces1(t, m)
        d  == NumEnd(t, d0, 1, 2, 1, 31)
    IN  IF d = Len(t) + 1
        THEN Datetime(1900, NameIdx(t, m0, MonthNames), NumVal(t, d0))
        ELSE None

\* datetime.strptime(t, '%B %d'): the year is 1900.
StrptimeMonthDay(t) ==
    LET m  == NameEnd(t, 1, MonthNames)
        d0 == Spaces1(t, m)
        d  == NumEnd(t, d0, 1, 2, 1, 31)
    IN  IF d = Len(t) + 1
        THEN Datetime(1900, NameIdx(t, 1, MonthNames), NumVal(t, d0))
        ELSE None

\* n as width digits, zero-padded
RECURSIVE Padded(_, _)
Padded(n, width) ==
    IF width = 0 THEN <<>> ELSE Padded(n \div 10, width - 1) \o <<DigitChar(n % 10)>>

\* dt.strftime('%Y-%m-%d')
IsoDate(dt) ==
    Padded(dt.year, 4) \o <<"-">> \o Padded(dt.month, 2) \o <<"-">> \o Padded(dt.day, 2)

\* A year-less date that takes the year it was parsed with.
WithParsedYear(dt, now) == dt

\* if dt.year == 1900: dt = dt.replace(year=datetime.now().year)
WithCurrentYear(dt, now) ==
    IF dt.year = 1900 THEN [dt EXCEPT !.year = now] ELSE dt

\* for fmt in ['%B %d, %Y', '%A, %B %d', '%B %d']: the first that parses.
DateOfText(date_str, now) ==
    IF StrptimeMonthDayYear(date_str) # None
    THEN Some(IsoDate(WithCurrentYear(StrptimeMonthDayYear(date_str)[1], now)))
    ELSE IF StrptimeDayMonthDay(date_str) # None
    THEN Some(IsoDate(WithCurrentYear(StrptimeDayMonthDay(date_str)[1], now)))
    ELSE IF StrptimeMonthDay(date_str) # None
    THEN Some(IsoDate(WithCurrentYear(StrptimeMonthDay(date_str)[1], now)))
    ELSE None

\* re.search of (January|...|December)\s+\d{1,2},?\s+\d{4} in a text node
HasFullDate(t) ==
    \E i \in 1..Len(t) :
        LET d0 == Spaces1(t, NameEnd(t, i, MonthNames))
            d  == NumEnd(t, d0, 1, 2, 0, 99)
            y0 == IF Lit(t, d, ",") # 0 THEN Spaces1(t, Lit(t, d, ",")) ELSE Spaces1(t, d)
        IN  y0 > 0 /\ Len(DigitRun(t, y0)) >= 4

\* soup.find(string=...): the first text node with a full date, parsed whole.
DateOfStrings(strings) ==
    LET hits == {k \in 1..Len(strings) : HasFullDate(strings[k])}
    IN  IF hits = {} THEN None
        ELSE LET date_text == strings[CHOOSE k \in hits : \A j \in hits : k <= j]
             IN  IF StrptimeMonthDayYear(Strip(date_text)) # None
                 THEN Some(IsoDate(StrptimeMonthDayYear(Strip(date_text))[1]))
                 ELSE None

\* extract_date_from_match_page(soup) when datetime.now().year is now
ExtractDate(soup, now) ==
    LET div == soup.date_div
        utc_ts == IF div = None THEN None ELSE div[1].utc_ts
    IN  IF /\ utc_ts # None
           /\ utc_ts[1] # <<>>
           /\ StrptimeTimestamp(utc_ts[1]) # None
        THEN Some(IsoDate(StrptimeTimestamp(utc_ts[1])[1]))
        ELSE IF div # None /\ DateOfText(Strip(div[1].text), now) # None
        THEN DateOfText(Strip(div[1].text), now)
        ELSE DateOfStrings(soup.strings)

Stamp(utc_ts, date) == [utc_ts |-> utc_ts, date |-> date]

StampSamples ==
    { Stamp(None, None),
      Stamp(Some(<<"2", "0", "2", "5", "-", "0", "3", "-", "0", "5", " ", "1", "2", ":", "0", "0", ":", "0", "0">>), Some(<<"2", "0", "2", "5", "-", "0", "3", "-", "0", "5">>)),
      Stamp(Some(<<"2", "0", "2", "4", "-", "3", "-", "7", " ", "1", ":", "0", "2", ":", "0", "3">>), Some(<<"2", "0", "2", "4", "-", "0", "3", "-", "0", "7">>)),
      Stamp(Some(<<"1", "7", "4", "1", "1", "3", "2", "8", "0", "0">>), None),
      Stamp(Some(<<"2", "0", "2", "5", "-", "0", "2", "-", "3", "0", " ", "0", "0", ":", "0", "0", ":", "0", "0">>), None),
      Stamp(Some(<<>>), None) }

DateText(text, denotes) == [text |-> text, denotes |-> denotes]

DateTextSamples ==
    { DateText(<<"M", "a", "r", "c", "h", " ", "5">>, Some([month |-> 3, day |-> 5, year |-> None])),
      DateText(<<"F", "e", "b", "r", "u", "a", "r", "y", " ", "2", "9">>, Some([month |-> 2, day |-> 29, year |-> None])),
      DateText(<<"W", "e", "d", "n", "e", "s", "d", "a", "y", ",", " ", "M", "a", "r", "c", "h", " ", " ", "5">>, Some([month |-> 3, day |-> 5, year |-> None])),
      DateText(<<"M", "a", "r", "c", "h", " ", "0", "5", ",", " ", "2", "0", "2", "3">>, Some([month |-> 3, day |-> 5, year |-> Some(2023)])),
      DateText(<<" ", "D", "e", "c", "e", "m", "b", "e", "r", " ", "3", "1", " ">>, Some([month |-> 12, day |-> 31, year |-> None])),
      DateText(<<>>, None),
      DateText(<<"T", "B", "D">>, None),
      DateText(<<"M", "a", "r", "c", "h", " ", "5", " ", "2", "0", "2", "3">>, None) }

\* The text nodes of the page outside the div.
OtherStringsSamples ==
    { <<>>,
      <<<<"P", "a", "t", "c", "h", " ", "9", ".", "0">>, <<" ", "M", "a", "r", "c", "h", " ", "6", ",", " ", "2", "0", "2", "3", " ">>>>,
      <<<<"o", "n", " ", "M", "a", "r", "c", "h", " ", "6", ",", " ", "2", "0", "2", "3">>, <<"M", "a", "r", "c", "h", " ", "7", ",", " ", "2", "0", "2", "3">>>> }

Soup(date_div, strings) == [date_div |-> date_div, strings |-> strings]

NoSoup == Soup(None, <<>>)

CurrentYears == {2024, 2025}

\* extract_date_from_match_page(soup) is called and returns.
DateCall ==
    /\ t_pc = "idle"
    /\ \E now \in CurrentYears, others \in OtherStringsSamples :
          /\ t_now' = now
          /\ \/ t_soup' = Soup(None, others)
             \/ \E stamp \in StampSamples, text \in DateTextSamples :
                   t_soup' = Soup(Some([utc_ts |-> stamp.utc_ts, date |-> stamp.date,
                                        text |-> text.text, denotes |-> text.denotes]),
                                  (IF Strip(text.text) = <<>> THEN <<>> ELSE <<text.text>>)
                                     \o others)
          /\ t_date' = ExtractDate(t_soup', now)
    /\ t_pc' = "returned"
    /\ UNCHANGED nonDateVars

DateIdle ==
    /\ t_pc = "idle"
    /\ t_soup = NoSoup
    /\ t_now = 0
    /\ t_date = None

(***************************************************************************)
(* tournament_discovery: get_tournaments_from_vct_page and                 *)
(* discover_all_tier1_tournaments.  A dict is a set of <<key, value>>      *)
(* pairs with one pair per key.  `maps` says what a sample page lists; no  *)
(* definition that models the code reads it.                               *)
(***************************************************************************)
\* match = re.search(r'/event/(\d+)/', href): match.group(1), None without.
EventIdOf(href) ==
    LET hits == {i \in 1..Len(href) :
                    /\ WordAt(href, i, <<"/", "e", "v", "e", "n", "t", "/">>)
                    /\ DigitRun(href, i + 7) # <<>>
                    /\ Lit(href, i + 7 + Len(DigitRun(href, i + 7)), "/") # 0}
    IN  IF hits = {} THEN None
        ELSE Some(DigitRun(href, (CHOOSE i \in hits : \A j \in hits : i <= j) + 7))

\* re.sub(r'(completed|ongoing|upcoming)Status.*', '', text).strip()
CutAtStatus(text) ==
    LET hits == {i \in 1..Len(text) :
                    \/ WordAt(text, i, <<"c", "o", "m", "p", "l", "e", "t", "e", "d", "S", "t", "a", "t", "u", "s">>)
                    \/ WordAt(text, i, <<"o", "n", "g", "o", "i", "n", "g", "S", "t", "a", "t", "u", "s">>)
                    \/ WordAt(text, i, <<"u", "p", "c", "o", "m", "i", "n", "g", "S", "t", "a", "t", "u", "s">>)}
    IN  IF hits = {} THEN Strip(text)
        ELSE Strip(SubSeq(text, 1, (CHOOSE i \in hits : \A j \in hits : i <= j) - 1))

\* d[key] = value
Put(d, key, value) == {kv \in d : kv[1] # key} \cup {<<key, value>>}

\* d.update(other)
Update(d, other) == {kv \in d : \A o \in other : o[1] # kv[1]} \cup other

\* for event in events: the links whose href holds '/event/' and an id,
\* added to tournaments in page order.
RECURSIVE Tournaments(_, _)
Tournaments(events, tournaments) ==
    IF events = <<>> THEN tournaments
    ELSE Tournaments(Tail(events),
            IF /\ Contains(Head(events).href, <<"/", "e", "v", "e", "n", "t", "/">>)
               /\ EventIdOf(Head(events).href) # None
            THEN Put(tournaments, EventIdOf(Head(events).href)[1],
                     CutAtStatus(Strip(Head(events).text)))
            ELSE tournaments)

EventLink(href, text) == [href |-> href, text |-> text]

YearPage(events, maps) == [events |-> events, maps |-> maps]

YearPageSamples ==
    { YearPage(<<>>, {}),
      YearPage(<<EventLink(<<"/", "e", "v", "e", "n", "t", "/", "1", "/", "a">>, <<"K", "i", "c", "k", "o", "f", "f", " ", "c", "o", "m", "p", "l", "e", "t", "e", "d", "S", "t", "a", "t", "u", "s", " ", "x">>),
                 EventLink(<<"/", "e", "v", "e", "n", "t", "/", "s", "e", "r", "i", "e", "s", "/", "9">>, <<"A", "l", "l">>),
                 EventLink(<<"/", "7", "/", "b">>, <<"M", "a", "t", "c", "h">>)>>,
               {<<<<"1">>, <<"K", "i", "c", "k", "o", "f", "f">>>>}),
      YearPage(<<EventLink(<<"/", "e", "v", "e", "n", "t", "/", "1", "/", "a">>, <<"O", "l", "d">>),
                 EventLink(<<"/", "e", "v", "e", "n", "t", "/", "2", "/", "b">>, <<" ", "M", "a", "s", "t", "e", "r", "s", " ">>),
                 EventLink(<<"/", "e", "v", "e", "n", "t", "/", "1", "/", "c">>, <<"C", "h", "a", "m", "p", "s", " ", "o", "n", "g", "o", "i", "n", "g", "S", "t", "a", "t", "u", "s">>)>>,
               {<<<<"1">>, <<"C", "h", "a", "m", "p", "s">>>>, <<<<"2">>, <<"M", "a", "s", "t", "e", "r", "s">>>>}) }

\* discover_all_tier1_tournaments() is called: all_tournaments = {}
EnumCall ==
    /\ y_pc = "idle"
    /\ y_pc' = "years"
    /\ y_year' = 0
    /\ y_all' = {}
    /\ y_hist' = <<>>
    /\ UNCHANGED nonEnumVars

\* A failing year that ends the loop over the years.
EnumYearFailsAborting ==
    /\ y_pc = "years"
    /\ y_year < MaxYears
    /\ y_pc' = "returned"
    /\ y_hist' = Append(y_hist, None)
    /\ UNCHANGED <<y_year, y_all>>
    /\ UNCHANGED nonEnumVars

\* for year in FRANCHISE_YEARS: requests.get, raise_for_status or the parse
\* raises; get_tournaments_from_vct_page returns {} and update adds nothing.
EnumYearFails ==
    /\ y_pc = "years"
    /\ y_year < MaxYears
    /\ y_year' = y_year + 1
    /\ y_all' = Update(y_all, {})
    /\ y_hist' = Append(y_hist, None)
    /\ UNCHANGED y_pc
    /\ UNCHANGED nonEnumVars

\* for year in FRANCHISE_YEARS: the page is fetched and parsed;
\* all_tournaments.update(tournaments)
EnumYearFetched ==
    /\ y_pc = "years"
    /\ y_year < MaxYears
    /\ \E page \in YearPageSamples :
          /\ y_all' = Update(y_all, Tournaments(page.events, {}))
          /\ y_hist' = Append(y_hist, Some(page.maps))
    /\ y_year' = y_year + 1
    /\ UNCHANGED y_pc
    /\ UNCHANGED nonEnumVars

\* return all_tournaments
EnumReturn ==
    /\ y_pc = "years"
    /\ y_year = MaxYears
    /\ y_pc' = "returned"
    /\ UNCHANGED <<y_year, y_all, y_hist>>
    /\ UNCHANGED nonEnumVars

\* The caller has read the result.
EnumDone ==
    /\ y_pc = "returned"
    /\ y_pc' = "idle"
    /\ y_year' = 0
    /\ y_all' = {}
    /\ y_hist' = <<>>
    /\ UNCHANGED nonEnumVars

EnumIdle ==
    /\ y_pc = "idle"
    /\ y_year = 0
    /\ y_all = {}
    /\ y_hist = <<>>

(***************************************************************************)
(* fetch_tournament_data: the calls its page loop makes, in order.         *)
(***************************************************************************)
Delays == {0, 1, 2}

\* fetch_tournament_data(tournament_id, delay) is called and
\* get_match_page_urls has returned.
LoopCall ==
    /\ l_pc = "idle"
    /\ \E delay \in Delays, urls \in 0..MaxUrls :
          /\ l_delay' = delay
          /\ l_urls' = urls
    /\ l_i' = 0
    /\ l_log' = <<>>
    /\ l_pc' = "pages"
    /\ UNCHANGED nonLoopVars

\* if delay > 0: time.sleep(delay)
DelayEvents(delay) == IF delay > 0 THEN <<Event("sleep", delay, "-")>> ELSE <<>>

\* html = fetch_page(match_url); if not html: continue
LoopPageFetchFails ==
    /\ l_pc = "pages"
    /\ l_i < l_urls
    /\ l_log' = Append(l_log, Event("fetch_page", l_i, "None"))
    /\ l_i' = l_i + 1
    /\ UNCHANGED <<l_pc, l_delay, l_urls>>
    /\ UNCHANGED nonLoopVars

\* The page is fetched and parsed, with or without records; the end of the
\* loop body is reached.
LoopPageParsed ==
    /\ l_pc = "pages"
    /\ l_i < l_urls
    /\ \E parsed \in {"matches", "empty"} :
          l_log' = Append(l_log, Event("fetch_page", l_i, parsed)) \o DelayEvents(l_delay)
    /\ l_i' = l_i + 1
    /\ UNCHANGED <<l_pc, l_delay, l_urls>>
    /\ UNCHANGED nonLoopVars

\* return all_matches
LoopReturn ==
    /\ l_pc = "pages"
    /\ l_i = l_urls
    /\ l_pc' = "returned"
    /\ UNCHANGED <<l_delay, l_urls, l_i, l_log>>
    /\ UNCHANGED nonLoopVars

LoopIdle ==
    /\ l_pc = "idle"
    /\ l_delay = 0
    /\ l_urls = 0
    /\ l_i = 0
    /\ l_log = <<>>

(***************************************************************************)
(* parse_match_page: sample page content.  `wellformed` and `parsed` say   *)
(* what a sample is; no definition that models the code reads them.        *)
(***************************************************************************)
Cell(span, text) == [span |-> span, text |-> text]

Row(cells, bold, cell0, kills, deaths, wellformed) ==
    [cells |-> cells, bold |-> bold, cell0 |-> cell0, kills |-> kills,
     deaths |-> deaths, wellformed |-> wellformed]

RowSamples ==
    { \* the bold name node and both mod-both spans
      Row(4, Some(<<"a">>), <<"a">>, Some(Cell(Some(<<"1", "3">>), <<"1", "3", "8", "5">>)),
          Some(Cell(Some(<<"7">>), <<"/", "7", "/">>)), TRUE),
      \* no bold node and no spans: the text fallbacks
      Row(4, None, <<" ", "b", " ">>, Some(Cell(None, <<"2", " ", "k">>)),
          Some(Cell(None, <<"/", " ", "9">>)), TRUE),
      \* fewer than four cells
      Row(3, Some(<<"a">>), <<"a">>, Some(Cell(Some(<<"1", "3">>), <<"1", "3">>)),
          Some(Cell(Some(<<"7">>), <<"7">>)), FALSE),
      \* a name that is a number
      Row(4, None, <<"7">>, Some(Cell(Some(<<"1", "3">>), <<"1", "3">>)),
          Some(Cell(Some(<<"7">>), <<"7">>)), FALSE),
      \* no kills cell
      Row(4, Some(<<"a">>), <<"a">>, None, Some(Cell(Some(<<"7">>), <<"7">>)), FALSE),
      \* kills that do not parse
      Row(4, Some(<<"a">>), <<"a">>, Some(Cell(Some(<<"x">>), <<"x">>)),
          Some(Cell(Some(<<"7">>), <<"7">>)), FALSE),
      \* no deaths cell
      Row(4, Some(<<"a">>), <<"a">>, Some(Cell(Some(<<"1", "3">>), <<"1", "3">>)), None, FALSE),
      \* deaths that do not parse: no span and no "/ N" in the text
      Row(4, Some(<<"a">>), <<"a">>, Some(Cell(Some(<<"1", "3">>), <<"1", "3">>)),
          Some(Cell(None, <<"9">>)), FALSE) }

Scores(texts, parsed) == [texts |-> texts, parsed |-> parsed]

ScoreSamples ==
    { Scores(<<<<"1", "3">>, <<"7">>>>, <<13, 7>>),
      Scores(<<<<"9">>, <<"1", "3">>>>, <<9, 13>>),
      Scores(<<<<"1", "0">>, <<"1", "0">>>>, <<10, 10>>),
      Scores(<<<<"1", "3">>>>, <<13>>),
      Scores(<<<<"1", "3">>, <<"x">>>>, <<13>>),
      Scores(<<<<"x">>, <<"7">>, <<"1", "3">>>>, <<7, 13>>),
      Scores(<<<<"1", "3">>, <<"7">>, <<"9">>>>, <<13, 7, 9>>),
      Scores(<<>>, <<>>) }

MapDivSamples ==
    { None,
      Some(<<"A", "s", "c", "e", "n", "t">>),
      Some(<<"A", "s", "c", "e", "n", "t", " ", "P", "I", "C", "K", " ", "1", "3", ":", "7">>),
      Some(<<"1", "3", ":", "7">>) }

GameSamples == [map_div : MapDivSamples, score : ScoreSamples]

Page(href, header_event, link_texts, title_texts, match_date) ==
    [href |-> href, header_event |-> header_event, link_texts |-> link_texts,
     title_texts |-> title_texts, match_date |-> match_date]

PageSamples ==
    { Page(<<"/", "1", "2", "/", "x">>, Some(<<"V", "C", "T">>),
           <<<<"X">>, <<"Y">>>>, <<>>, Some("2025-03-05")),
      Page(<<"/", "1", "2", "/", "x">>, Some(<<"V", "C", "T">>),
           <<<<"X">>>>, <<<<"7">>, <<"Y">>>>, None),
      Page(<<"/", "x", "/", "y">>, None, <<>>, <<<<"X">>>>, None) }

\* match_id, tournament_name, match_date and team_names of the page.
PageFields(page) ==
    [match_id |-> MatchIdOf(page.href),
     tournament_name |-> TournamentName(page.header_event),
     match_date |-> page.match_date,
     team_names |-> TeamNames(page.link_texts, page.title_texts)]

(***************************************************************************)
(* parse_match_page: the loops                                             *)
(***************************************************************************)
NoGame == [map_name |-> <<>>, winning_team_idx |-> None, higher |-> "none"]

\* Which of a sample's first two parsed scores is the higher one.
Higher(parsed) ==
    IF Len(parsed) >= 2 /\ parsed[1] > parsed[2] THEN "first"
    ELSE IF Len(parsed) >= 2 /\ parsed[2] > parsed[1] THEN "second"
    ELSE "none"

\* unread: the rows of the table's tbody the row loop has not visited yet.
NoTable == [team_idx |-> 0, team_name |-> <<>>, result |-> "Tie", unread |-> 0]

NoPage == [match_id |-> None, tournament_name |-> <<>>, match_date |-> None,
           team_names |-> <<>>]

\* sections, tables, rows: how many the loops have read.  wellformed: the
\* rows of the page read so far that the samples call well-formed.
\* malformed: the current table held a row the samples call malformed.
\* revived: some table appended a record after a malformed row of its own.
Seen(sections, tables, rows, wellformed, malformed, revived) ==
    [sections |-> sections, tables |-> tables, rows |-> rows,
     wellformed |-> wellformed, malformed |-> malformed, revived |-> revived]

Count(flag) == IF flag THEN 1 ELSE 0

\* A record that has the page's date only in the winner's table.
MatchRecordDatedForWinner(page, map_name, result, team_name, row) ==
    [description |-> Description(page.tournament_name, page.team_names),
     map |-> map_name,
     player |-> PlayerName(row),
     kills |-> ExtractKills(row.kills[1])[1],
     deaths |-> ExtractDeaths(row.deaths[1])[1],
     match_date |-> IF result = "Win" THEN page.match_date ELSE None,
     result |-> result,
     team |-> team_name,
     match_id |-> page.match_id]

\* match_data of a row that resolved player_name, kills and deaths.
MatchRecord(page, map_name, result, team_name, row) ==
    [description |-> Description(page.tournament_name, page.team_names),
     map |-> map_name,
     player |-> PlayerName(row),
     kills |-> ExtractKills(row.kills[1])[1],
     deaths |-> ExtractDeaths(row.deaths[1])[1],
     match_date |-> page.match_date,
     result |-> result,
     team |-> team_name,
     match_id |-> page.match_id]

\* The record of the row the row loop is at.
MatchData(row) ==
    MatchRecord(p_page, p_game.map_name, p_table.result, p_table.team_name, row)

\* Whether the row loop reaches matches_data.append for this row.
RowResolves(row) ==
    /\ ~(row.cells < 4)
    /\ ~(PlayerName(row) = <<>> \/ IsDigits(PlayerName(row)))
    /\ row.kills # None
    /\ ExtractKills(row.kills[1]) # None
    /\ row.deaths # None
    /\ ExtractDeaths(row.deaths[1]) # None

\* parse_match_page(html, match_url) up to the section loop.
ParseCall ==
    /\ p_pc = "idle"
    /\ \E page \in PageSamples :
          p_page' = PageFields(page)
    /\ p_pc' = "sections"
    /\ UNCHANGED <<p_game, p_table, p_matches, p_seen>>
    /\ UNCHANGED nonParseVars

\* for game in game_sections: a section without div.map or without a map
\* name is skipped.
ParseSectionSkipped ==
    /\ p_pc = "sections"
    /\ p_seen.sections < MaxSections
    /\ \E game \in GameSamples :
          MapName(game.map_div) = <<>>
    /\ p_seen' = [p_seen EXCEPT !.sections = @ + 1]
    /\ UNCHANGED <<p_pc, p_page, p_game, p_table, p_matches>>
    /\ UNCHANGED nonParseVars

\* for game in game_sections: map_name, team_scores, winning_team_idx.
ParseSection ==
    /\ p_pc = "sections"
    /\ p_seen.sections < MaxSections
    /\ \E game \in GameSamples :
          /\ MapName(game.map_div) # <<>>
          /\ p_game' = [map_name |-> MapName(game.map_div),
                        winning_team_idx |-> WinningTeamIdx(TeamScores(game.score.texts)),
                        higher |-> Higher(game.score.parsed)]
    /\ p_seen' = [p_seen EXCEPT !.sections = @ + 1, !.tables = 0]
    /\ p_pc' = "tables"
    /\ UNCHANGED <<p_page, p_table, p_matches>>
    /\ UNCHANGED nonParseVars

\* for team_idx, table in enumerate(tables): a table without tbody.
ParseTableNoBody ==
    /\ p_pc = "tables"
    /\ p_seen.tables < MaxTables
    /\ p_table' = [team_idx |-> p_seen.tables,
                   team_name |-> TeamName(p_page.team_names, p_seen.tables),
                   result |-> TableResult(p_game.winning_team_idx, p_seen.tables),
                   unread |-> 0]
    /\ p_seen' = [p_seen EXCEPT !.tables = @ + 1]
    /\ UNCHANGED <<p_pc, p_page, p_game, p_matches>>
    /\ UNCHANGED nonParseVars

\* for team_idx, table in enumerate(tables): team_name, result, and
\* rows = tbody.find_all('tr'), of any length the page bound leaves.
ParseTable ==
    /\ p_pc = "tables"
    /\ p_seen.tables < MaxTables
    /\ \E n \in 0..(MaxPageRows - p_seen.rows) :
          p_table' = [team_idx |-> p_seen.tables,
                      team_name |-> TeamName(p_page.team_names, p_seen.tables),
                      result |-> TableResult(p_game.winning_team_idx, p_seen.tables),
                      unread |-> n]
    /\ p_seen' = [p_seen EXCEPT !.tables = @ + 1, !.malformed = FALSE]
    /\ p_pc' = "rows"
    /\ UNCHANGED <<p_page, p_game, p_matches>>
    /\ UNCHANGED nonParseVars

\* A malformed row that ends the row loop of its table.
ParseRowAborting ==
    /\ p_pc = "rows"
    /\ p_table.unread > 0
    /\ p_table' = [p_table EXCEPT !.unread = @ - 1]
    /\ \E row \in RowSamples :
          /\ ~RowResolves(row)
          /\ p_seen' = [p_seen EXCEPT !.rows = @ + 1,
                                      !.wellformed = @ + Count(row.wellformed),
                                      !.malformed = @ \/ ~row.wellformed]
    /\ p_pc' = "tables"
    /\ UNCHANGED <<p_page, p_game, p_matches>>
    /\ UNCHANGED nonParseVars

\* for row in rows: one of the `continue` statements is taken.
ParseRowSkipped ==
    /\ p_pc = "rows"
    /\ p_table.unread > 0
    /\ p_table' = [p_table EXCEPT !.unread = @ - 1]
    /\ \E row \in RowSamples :
          /\ ~RowResolves(row)
          /\ p_seen' = [p_seen EXCEPT !.rows = @ + 1,
                                      !.wellformed = @ + Count(row.wellformed),
                                      !.malformed = @ \/ ~row.wellformed]
    /\ UNCHANGED <<p_pc, p_page, p_game, p_matches>>
    /\ UNCHANGED nonParseVars

\* for row in rows: matches_data.append(match_data)
ParseRowAppended ==
    /\ p_pc = "rows"
    /\ p_table.unread > 0
    /\ p_table' = [p_table EXCEPT !.unread = @ - 1]
    /\ \E row \in RowSamples :
          /\ RowResolves(row)
          /\ p_matches' = Append(p_matches, MatchData(row))
          /\ p_seen' = [p_seen EXCEPT !.rows = @ + 1,
                                      !.wellformed = @ + Count(row.wellformed),
                                      !.malformed = @ \/ ~row.wellformed,
                                      !.revived = @ \/ p_seen.malformed]
    /\ UNCHANGED <<p_pc, p_page, p_game>>
    /\ UNCHANGED nonParseVars

\* The rows of the table are exhausted.
ParseRowsEnd ==
    /\ p_pc = "rows"
    /\ p_table.unread = 0
    /\ p_table' = NoTable
    /\ p_seen' = [p_seen EXCEPT !.malformed = FALSE]
    /\ p_pc' = "tables"
    /\ UNCHANGED <<p_page, p_game, p_matches>>
    /\ UNCHANGED nonParseVars

\* The tables of the section are exhausted.
ParseTablesEnd ==
    /\ p_pc = "tables"
    /\ p_game' = NoGame
    /\ p_table' = NoTable
    /\ p_seen' = [p_seen EXCEPT !.tables = 0]
    /\ p_pc' = "sections"
    /\ UNCHANGED <<p_page, p_matches>>
    /\ UNCHANGED nonParseVars

\* return matches_data, tournament_name, match_date
ParseReturn ==
    /\ p_pc = "sections"
    /\ p_pc' = "returned"
    /\ UNCHANGED <<p_page, p_game, p_table, p_matches, p_seen>>
    /\ UNCHANGED nonParseVars

ParseIdle ==
    /\ p_pc = "idle"
    /\ p_page = NoPage
    /\ p_game = NoGame
    /\ p_table = NoTable
    /\ p_matches = <<>>
    /\ p_seen = Seen(0, 0, 0, 0, FALSE, FALSE)

(***************************************************************************)
(* parse_match_page as a function of a whole page: the page header, and    *)
(* the vm-stats-game sections with their tables (None: a table without     *)
(* tbody) and rows.  `named` says whether a sample section has a map name. *)
(***************************************************************************)
\* for row in rows: the records of the rows that reach the append.
RECURSIVE ParseRows(_, _, _, _, _)
ParseRows(page, map_name, result, team_name, rows) ==
    IF rows = <<>> THEN <<>>
    ELSE (IF RowResolves(Head(rows))
          THEN <<MatchRecord(page, map_name, result, team_name, Head(rows))>>
          ELSE <<>>)
            \o ParseRows(page, map_name, result, team_name, Tail(rows))

\* for team_idx, table in enumerate(tables), from table team_idx on.
RECURSIVE ParseTables(_, _, _, _, _)
ParseTables(page, map_name, winning_team_idx, tables, team_idx) ==
    IF team_idx >= Len(tables) THEN <<>>
    ELSE (IF tables[team_idx + 1] = None THEN <<>>
          ELSE ParseRows(page, map_name, TableResult(winning_team_idx, team_idx),
                         TeamName(page.team_names, team_idx), tables[team_idx + 1][1]))
            \o ParseTables(page, map_name, winning_team_idx, tables, team_idx + 1)

\* for game in game_sections
RECURSIVE ParseSections(_, _)
ParseSections(page, games) ==
    IF games = <<>> THEN <<>>
    ELSE (IF MapName(Head(games).map_div) = <<>> THEN <<>>
          ELSE ParseTables(page, MapName(Head(games).map_div),
                           WinningTeamIdx(TeamScores(Head(games).score.texts)),
                           Head(games).tables, 0))
            \o ParseSections(page, Tail(games))

\* matches_data of parse_match_page(html, match_url)
ParseMatchPage(html) == ParseSections(PageFields(html.page), html.games)

PlayerRow(name) ==
    Row(4, Some(<<name>>), <<name>>, Some(Cell(Some(<<"1", "3">>), <<"1", "3">>)),
        Some(Cell(Some(<<"7">>), <<"/", "7", "/">>)), TRUE)

FewCellsRow ==
    Row(3, Some(<<"x">>), <<"x">>, Some(Cell(Some(<<"1", "3">>), <<"1", "3">>)),
        Some(Cell(Some(<<"7">>), <<"7">>)), FALSE)

TableRows(names) == [i \in 1..Len(names) |-> PlayerRow(names[i])]

\* The tables a sample section may hold.
TablesSamples ==
    { <<Some(TableRows(<<"a", "b", "c", "d", "e">>)),
        Some(TableRows(<<"f", "g", "h", "i", "j">>))>>,
      <<Some(TableRows(<<"a", "b", "c">>) \o <<FewCellsRow>> \o TableRows(<<"d", "e">>)),
        Some(TableRows(<<"f", "g", "h", "i", "j">>))>>,
      <<None, Some(TableRows(<<"f", "g", "h", "i", "j">>))>> }

MapDiv(div, named) == [div |-> div, named |-> named]

GameMapSamples ==
    { MapDiv(Some(<<"B", "i", "n", "d", " ", "P", "I", "C", "K">>), TRUE),
      MapDiv(None, FALSE) }

GameScoreSamples ==
    { Scores(<<<<"1", "3">>, <<"2">>>>, <<13, 2>>),
      Scores(<<<<"9">>, <<"1", "3">>>>, <<9, 13>>),
      Scores(<<<<"1", "0">>, <<"1", "0">>>>, <<10, 10>>) }

Game(map, score, tables) ==
    [map_div |-> map.div, named |-> map.named, score |-> score, tables |-> tables]

Games ==
    {Game(map, score, tables) :
        map \in GameMapSamples, score \in GameScoreSamples, tables \in TablesSamples}

Html(page, games) == [page |-> page, games |-> games]

NoHtml == Html(Page(<<>>, None, <<>>, <<>>, None), <<>>)

\* parse_match_page(html, match_url) is called on a page and returns.
PageCall ==
    /\ h_pc = "idle"
    /\ \E page \in PageSamples, games \in SeqsUpTo(Games, MaxSections) :
          /\ h_html' = Html(page, games)
          /\ h_matches' = ParseMatchPage(Html(page, games))
          /\ h_date' = PageFields(page).match_date
    /\ h_pc' = "returned"
    /\ UNCHANGED nonPageVars

PageIdle ==
    /\ h_pc = "idle"
    /\ h_html = NoHtml
    /\ h_matches = <<>>
    /\ h_date = None

(***************************************************************************)
(* run_scraper.run_scraper and update_matches.update_matches, with         *)
(* fetch_tournament_data inlined.  A page is <<tid, i>>: the i-th match    *)
(* url of the tid-th tournament.  The store's INSERTs succeed here.        *)
(***************************************************************************)
\* The match_id in the url of a page.
PageMatchId(page) == ToString(page[1]) \o "0" \o ToString(page[2])

\* The identifiers of the tournaments of a run, by position in tournament_ids.
TournamentIds == <<2682, 2683, 2684, 2685>>

TournamentId(tid) == TournamentIds[tid]

\* What parse_match_page returns for a page that has player rows: one record
\* per player row, without a tournament_id.
ParsedRecords(page) ==
    << [description |-> "d1", map |-> "Ascent", player |-> "p1", kills |-> 1,
        match_id |-> PageMatchId(page)],
       [description |-> "d1", map |-> "Ascent", player |-> "p2", kills |-> 0,
        match_id |-> PageMatchId(page)] >>

\* A tagging that gives every record the identifier of the first tournament.
TagWithFirstId(matches, tournament_id) ==
    [i \in 1..Len(matches) |->
        [description |-> matches[i].description, map |-> matches[i].map,
         player |-> matches[i].player, kills |-> matches[i].kills,
         match_id |-> matches[i].match_id, tournament_id |-> TournamentIds[1]]]

\* for match in matches: match['tournament_id'] = tournament_id
Tag(matches, tournament_id) ==
    [i \in 1..Len(matches) |->
        [description |-> matches[i].description, map |-> matches[i].map,
         player |-> matches[i].player, kills |-> matches[i].kills,
         match_id |-> matches[i].match_id, tournament_id |-> tournament_id]]

\* The records fetch_tournament_data adds to all_matches for a page.
PageRecords(page) == Tag(ParsedRecords(page), TournamentId(page[1]))

\* given: len(tournament_ids) of the argument, or None for tournament_ids=None.
\* nomatch: the listing of the current tournament was not fetched or has no
\* link of a match page, as its samples say.
Run(entry, dry_run, given, tids, tid, urls, i, nomatch) ==
    [entry |-> entry, dry_run |-> dry_run, given |-> given, tids |-> tids,
     tid |-> tid, urls |-> urls, i |-> i, nomatch |-> nomatch]

NoRun == Run("none", FALSE, None, 0, 0, 0, 0, FALSE)

\* The listing pages a tournament may have: None when its fetch failed;
\* otherwise its links, of which at most two are distinct match pages.
ListingSamples ==
    { None,
      Some(<<>>),
      Some(<<Link(<<"/", "3", "/", "e", "v", "e", "n", "t", "/", "x">>, FALSE),
             Link(<<"/", "7">>, FALSE)>>),
      Some(<<Link(<<"/", "1", "/", "a">>, TRUE)>>),
      Some(<<Link(<<"/", "1", "/", "a">>, TRUE),
             Link(<<"/", "3", "/", "e", "v", "e", "n", "t", "/", "x">>, FALSE),
             Link(<<"/", "1", "/", "a">>, TRUE)>>),
      Some(<<Link(<<"/", "1", "/", "a">>, TRUE),
             Link(<<"/", "2", "/", "b">>, TRUE)>>),
      Some(<<Link(<<"/", "2", "/", "b">>, TRUE),
             Link(<<"/", "1", "2", "/", "a">>, TRUE),
             Link(<<"/", "3", "/", "e", "v", "e", "n", "t", "/", "x">>, FALSE),
             Link(<<"/", "2", "/", "b">>, TRUE)>>) }

NoMatchLink(listing) ==
    listing = None \/ \A k \in 1..Len(listing[1]) : ~listing[1][k].matchPage

\* How many of TIER1_TOURNAMENT_IDS and of get_active_tournament_ids() a run
\* goes through.
DefaultTournaments == MaxTournaments

\* len(tournament_ids) of the loop an entry point runs for its argument:
\* run_scraper tests `if tournament_ids:`, the other two `is None`.
LoopedTournaments(entry, given) ==
    IF entry = "run_scraper"
    THEN IF given # None /\ given[1] > 0 THEN given[1] ELSE DefaultTournaments
    ELSE IF given = None THEN DefaultTournaments ELSE given[1]

Hist(listed, failed, good, rows) ==
    [listed |-> listed, failed |-> failed, good |-> good, rows |-> rows]

\* run_scraper(tournament_ids, delay, dry_run), update_matches(tournament_ids)
\* or fetch_all_tier1_data(tournament_ids) is called.
RunCall ==
    /\ r_pc = "idle"
    /\ pc = "idle"
    /\ \E entry \in {"run_scraper", "update_matches", "fetch_all_tier1_data"},
          dry_run \in BOOLEAN,
          given \in {None} \cup {Some(n) : n \in 0..MaxTournaments} :
          /\ dry_run => entry = "run_scraper"
          /\ r_run' = Run(entry, dry_run, given, LoopedTournaments(entry, given),
                          0, 0, 0, FALSE)
    /\ r_matches' = <<>>
    /\ r_all' = <<>>
    /\ r_hist' = Hist({}, {}, {}, store)
    /\ r_pc' = "tournaments"
    /\ UNCHANGED ingestVars
    /\ UNCHANGED nonRunVars

\* for tid in tournament_ids: fetch_tournament_data(tid) is called and
\* get_match_page_urls returns its urls ([] when the listing was not fetched);
\* the page loop goes through len(match_urls) pages.
RunTournament ==
    /\ r_pc = "tournaments"
    /\ r_run.tid < r_run.tids
    /\ \E listing \in ListingSamples :
        \E match_urls \in GetMatchPageUrls(IF listing = None THEN None
                                           ELSE Some(Hrefs(listing[1]))) :
          /\ r_run' = [r_run EXCEPT !.tid = @ + 1, !.urls = Len(match_urls),
                                    !.i = 0, !.nomatch = NoMatchLink(listing)]
          /\ r_hist' = [r_hist EXCEPT
                           !.listed = @ \cup {<<r_run.tid + 1, i>> :
                                                  i \in 1..Len(match_urls)}]
    /\ r_matches' = <<>>
    /\ r_pc' = "pages"
    /\ UNCHANGED r_all
    /\ UNCHANGED ingestVars
    /\ UNCHANGED nonRunVars

\* A failed fetch that ends the page loop of its tournament.
RunPageFetchAborts ==
    /\ r_pc = "pages"
    /\ r_run.i < r_run.urls
    /\ r_run' = [r_run EXCEPT !.i = r_run.urls]
    /\ r_hist' = [r_hist EXCEPT !.failed = @ \cup {<<r_run.tid, r_run.i + 1>>}]
    /\ UNCHANGED <<r_pc, r_matches, r_all>>
    /\ UNCHANGED ingestVars
    /\ UNCHANGED nonRunVars

\* html = fetch_page(match_url); if not html: continue
RunPageFetchFails ==
    /\ r_pc = "pages"
    /\ r_run.i < r_run.urls
    /\ r_run' = [r_run EXCEPT !.i = @ + 1]
    /\ r_hist' = [r_hist EXCEPT !.failed = @ \cup {<<r_run.tid, r_run.i + 1>>}]
    /\ UNCHANGED <<r_pc, r_matches, r_all>>
    /\ UNCHANGED ingestVars
    /\ UNCHANGED nonRunVars

\* parse_match_page found no player rows in the html: `if matches:` is false.
RunPageParseEmpty ==
    /\ r_pc = "pages"
    /\ r_run.i < r_run.urls
    /\ r_run' = [r_run EXCEPT !.i = @ + 1]
    /\ r_hist' = [r_hist EXCEPT !.failed = @ \cup {<<r_run.tid, r_run.i + 1>>}]
    /\ UNCHANGED <<r_pc, r_matches, r_all>>
    /\ UNCHANGED ingestVars
    /\ UNCHANGED nonRunVars

\* A page whose first record is written to the store as soon as it is parsed.
RunPageParsedStoring ==
    /\ r_pc = "pages"
    /\ r_run.i < r_run.urls
    /\ r_run' = [r_run EXCEPT !.i = @ + 1]
    /\ r_matches' = r_matches \o PageRecords(<<r_run.tid, r_run.i + 1>>)
    /\ r_hist' = [r_hist EXCEPT !.good = @ \cup {<<r_run.tid, r_run.i + 1>>}]
    /\ store' = IF LookupRow(store, PageRecords(<<r_run.tid, r_run.i + 1>>)[1])
                THEN store
                ELSE InsertRow(store, PageRecords(<<r_run.tid, r_run.i + 1>>)[1])
    /\ store0' = store'
    /\ UNCHANGED <<r_pc, r_all>>
    /\ UNCHANGED <<batch, idx, found, inserted, skipped, pc, calls, faults>>
    /\ UNCHANGED nonRunVars

\* matches = parse_match_page(...); all_matches.extend(matches)
RunPageParsed ==
    /\ r_pc = "pages"
    /\ r_run.i < r_run.urls
    /\ r_run' = [r_run EXCEPT !.i = @ + 1]
    /\ r_matches' = r_matches \o Tag(ParsedRecords(<<r_run.tid, r_run.i + 1>>),
                                      TournamentId(r_run.tid))
    /\ r_hist' = [r_hist EXCEPT !.good = @ \cup {<<r_run.tid, r_run.i + 1>>}]
    /\ UNCHANGED <<r_pc, r_all>>
    /\ UNCHANGED ingestVars
    /\ UNCHANGED nonRunVars

\* run_scraper, fetch_all_tier1_data: matches = fetch_tournament_data(tid);
\* all_matches.extend(matches)
RunTournamentCollected ==
    /\ r_pc = "pages"
    /\ r_run.i = r_run.urls
    /\ r_run.entry \in {"run_scraper", "fetch_all_tier1_data"}
    /\ r_all' = r_all \o r_matches
    /\ r_matches' = <<>>
    /\ r_pc' = "tournaments"
    /\ UNCHANGED <<r_run, r_hist>>
    /\ UNCHANGED ingestVars
    /\ UNCHANGED nonRunVars

\* update_matches: matches = fetch_tournament_data(tid) is empty.
RunTournamentEmpty ==
    /\ r_pc = "pages"
    /\ r_run.i = r_run.urls
    /\ r_run.entry = "update_matches"
    /\ r_matches = <<>>
    /\ r_pc' = "tournaments"
    /\ UNCHANGED <<r_run, r_matches, r_all, r_hist>>
    /\ UNCHANGED ingestVars
    /\ UNCHANGED nonRunVars

\* The call of add_matches_batch(matches) from a run.
RunEnterBatch(matches) ==
    /\ batch' = matches
    /\ idx' = 1
    /\ inserted' = 0
    /\ skipped' = 0
    /\ found' = FALSE
    /\ pc' = "lookup"
    /\ calls' = calls + 1
    /\ store0' = store
    /\ faults' = 0
    /\ UNCHANGED store

\* update_matches: if matches: database.add_matches_batch(matches)
RunTournamentSave ==
    /\ r_pc = "pages"
    /\ r_run.i = r_run.urls
    /\ r_run.entry = "update_matches"
    /\ r_matches # <<>>
    /\ RunEnterBatch(r_matches)
    /\ r_matches' = <<>>
    /\ r_pc' = "saving"
    /\ UNCHANGED <<r_run, r_all, r_hist>>
    /\ UNCHANGED nonRunVars

\* run_scraper: the tournaments are exhausted.
RunCollected ==
    /\ r_pc = "tournaments"
    /\ r_run.tid = r_run.tids
    /\ r_run.entry = "run_scraper"
    /\ r_pc' = "save"
    /\ UNCHANGED <<r_run, r_matches, r_all, r_hist>>
    /\ UNCHANGED ingestVars
    /\ UNCHANGED nonRunVars

\* A dry run that goes on to database.add_matches_batch(all_matches).
RunDryRunSaving ==
    /\ r_pc = "save"
    /\ r_run.dry_run
    /\ RunEnterBatch(r_all)
    /\ r_pc' = "saving"
    /\ UNCHANGED <<r_run, r_matches, r_all, r_hist>>
    /\ UNCHANGED nonRunVars

\* fetch_all_tier1_data: the tournaments are exhausted; return all_data
RunFetchedAll ==
    /\ r_pc = "tournaments"
    /\ r_run.tid = r_run.tids
    /\ r_run.entry = "fetch_all_tier1_data"
    /\ r_pc' = "done"
    /\ UNCHANGED <<r_run, r_matches, r_all, r_hist>>
    /\ UNCHANGED ingestVars
    /\ UNCHANGED nonRunVars

\* run_scraper: if dry_run: return all_matches
RunDryRun ==
    /\ r_pc = "save"
    /\ r_run.dry_run
    /\ r_pc' = "done"
    /\ UNCHANGED <<r_run, r_matches, r_all, r_hist>>
    /\ UNCHANGED ingestVars
    /\ UNCHANGED nonRunVars

\* run_scraper: database.add_matches_batch(all_matches)
RunSave ==
    /\ r_pc = "save"
    /\ ~r_run.dry_run
    /\ RunEnterBatch(r_all)
    /\ r_pc' = "saving"
    /\ UNCHANGED <<r_run, r_matches, r_all, r_hist>>
    /\ UNCHANGED nonRunVars

\* add_matches_batch returned to the run: update_matches goes on with the
\* next tid, run_scraper returns.
RunSaved ==
    /\ r_pc = "saving"
    /\ pc = "returned"
    /\ batch' = <<>>
    /\ idx' = 0
    /\ found' = FALSE
    /\ inserted' = 0
    /\ skipped' = 0
    /\ pc' = "idle"
    /\ store0' = store
    /\ r_pc' = IF r_run.entry = "update_matches" THEN "tournaments" ELSE "done"
    /\ UNCHANGED <<store, calls, faults>>
    /\ UNCHANGED <<r_run, r_matches, r_all, r_hist>>
    /\ UNCHANGED nonRunVars

\* update_matches: the tournaments are exhausted; return total_new
RunUpdated ==
    /\ r_pc = "tournaments"
    /\ r_run.tid = r_run.tids
    /\ r_run.entry = "update_matches"
    /\ r_pc' = "done"
    /\ UNCHANGED <<r_run, r_matches, r_all, r_hist>>
    /\ UNCHANGED ingestVars
    /\ UNCHANGED nonRunVars

\* The process is interrupted (KeyboardInterrupt, SIGTERM) wherever it is;
\* the rows committed so far stay.
RunInterrupt ==
    /\ r_pc \in {"tournaments", "pages", "save", "saving"}
    /\ r_pc' = "interrupted"
    /\ UNCHANGED <<r_run, r_matches, r_all, r_hist>>
    /\ UNCHANGED ingestVars
    /\ UNCHANGED nonRunVars

RunIdle ==
    /\ r_pc = "idle"
    /\ r_run = NoRun
    /\ r_matches = <<>>
    /\ r_all = <<>>
    /\ r_hist = Hist({}, {}, {}, <<>>)

IngestInit ==
    /\ store = <<>>
    /\ batch = <<>>
    /\ idx = 0
    /\ found = FALSE
    /\ inserted = 0
    /\ skipped = 0
    /\ pc = "idle"
    /\ calls = 0
    /\ store0 = <<>>
    /\ faults = 0

Init ==
    /\ IngestInit
    /\ FetchIdle
    /\ ParseIdle
    /\ RunIdle
    /\ ExtractIdle
    /\ DiscoverIdle
    /\ QueryIdle
    /\ PageIdle
    /\ DateIdle
    /\ EnumIdle
    /\ LoopIdle
    /\ AddIdle
    /\ ConcIdle

Next ==
    \/ BatchCall
    \/ BatchLookup
    \/ BatchSkip
    \/ BatchInsert
    \/ BatchInsertFails
    \/ BatchReturn
    \/ BatchDone

Spec == Init /\ [][Next]_vars

(***************************************************************************)
(* add_matches_batch called by two processes at once on one database (two  *)
(* overlapping scheduled runs).  Each call has its own connection and      *)
(* locals; every SELECT and every committed INSERT is one atomic step of   *)
(* the database, and the steps of the two calls interleave freely.         *)
(***************************************************************************)
\* The records of one player on one map of one match page, with and without
\* the match id.
ConcRecords == {r \in Records : r.description = "d1" /\ r.kills = 0}

ConcBatches == SeqsUpTo(ConcRecords, MaxConcBatch)

\* add_matches_batch(matches) is called by process w.
ConcCall(w) ==
    /\ c_pc[w] = "idle"
    /\ \E b \in ConcBatches : c_batch' = [c_batch EXCEPT ![w] = b]
    /\ c_idx' = [c_idx EXCEPT ![w] = 1]
    /\ c_counts' = [c_counts EXCEPT ![w] = <<0, 0>>]
    /\ c_pc' = [c_pc EXCEPT ![w] = "lookup"]
    /\ UNCHANGED <<c_store, c_log, c_found, c_seen>>
    /\ UNCHANGED nonConcVars

\* A SELECT that finds nothing.
ConcLookupBlind(w) ==
    /\ c_pc[w] = "lookup"
    /\ c_idx[w] <= Len(c_batch[w])
    /\ c_found' = [c_found EXCEPT ![w] = FALSE]
    /\ c_seen' = [c_seen EXCEPT ![w] = Len(c_store)]
    /\ c_pc' = [c_pc EXCEPT ![w] = "decide"]
    /\ UNCHANGED <<c_store, c_log, c_batch, c_idx, c_counts>>
    /\ UNCHANGED nonConcVars

\* for match in matches: the SELECT of the current record, on the table as
\* it is now.
ConcLookup(w) ==
    /\ c_pc[w] = "lookup"
    /\ c_idx[w] <= Len(c_batch[w])
    /\ c_found' = [c_found EXCEPT ![w] = LookupRow(c_store, c_batch[w][c_idx[w]])]
    /\ c_seen' = [c_seen EXCEPT ![w] = Len(c_store)]
    /\ c_pc' = [c_pc EXCEPT ![w] = "decide"]
    /\ UNCHANGED <<c_store, c_log, c_batch, c_idx, c_counts>>
    /\ UNCHANGED nonConcVars

\* if cursor.fetchone(): skipped += 1; continue
ConcSkip(w) ==
    /\ c_pc[w] = "decide"
    /\ c_found[w]
    /\ c_counts' = [c_counts EXCEPT ![w] = <<@[1], @[2] + 1>>]
    /\ c_idx' = [c_idx EXCEPT ![w] = @ + 1]
    /\ c_pc' = [c_pc EXCEPT ![w] = "lookup"]
    /\ UNCHANGED <<c_store, c_log, c_batch, c_found, c_seen>>
    /\ UNCHANGED nonConcVars

\* try: INSERT; commit; inserted += 1   (on the table as it is now, which
\* may have grown since this call's SELECT)
ConcInsert(w) ==
    /\ c_pc[w] = "decide"
    /\ ~c_found[w]
    /\ c_store' = InsertRow(c_store, c_batch[w][c_idx[w]])
    /\ c_log' = Append(c_log, [by |-> w, seen |-> c_seen[w]])
    /\ c_counts' = [c_counts EXCEPT ![w] = <<@[1] + 1, @[2]>>]
    /\ c_idx' = [c_idx EXCEPT ![w] = @ + 1]
    /\ c_pc' = [c_pc EXCEPT ![w] = "lookup"]
    /\ UNCHANGED <<c_batch, c_found, c_seen>>
    /\ UNCHANGED nonConcVars

\* except Exception: skipped += 1   (the INSERT raised: nothing is stored)
ConcInsertFails(w) ==
    /\ c_pc[w] = "decide"
    /\ ~c_found[w]
    /\ c_counts' = [c_counts EXCEPT ![w] = <<@[1], @[2] + 1>>]
    /\ c_idx' = [c_idx EXCEPT ![w] = @ + 1]
    /\ c_pc' = [c_pc EXCEPT ![w] = "lookup"]
    /\ UNCHANGED <<c_store, c_log, c_batch, c_found, c_seen>>
    /\ UNCHANGED nonConcVars

\* The loop is over: conn.close(); return inserted, skipped
ConcReturn(w) ==
    /\ c_pc[w] = "lookup"
    /\ c_idx[w] > Len(c_batch[w])
    /\ c_pc' = [c_pc EXCEPT ![w] = "returned"]
    /\ UNCHANGED <<c_store, c_log, c_batch, c_idx, c_found, c_seen, c_counts>>
    /\ UNCHANGED nonConcVars

NextConcurrent ==
    \E w \in Writers :
        \/ ConcCall(w)
        \/ ConcLookup(w)
        \/ ConcSkip(w)
        \/ ConcInsert(w)
        \/ ConcInsertFails(w)
        \/ ConcReturn(w)

SpecConcurrent == Init /\ [][NextConcurrent]_vars

\* Every writer of the matches table, one call at a time.
NextWriters ==
    \/ BatchCall
    \/ BatchLookup
    \/ BatchSkip
    \/ BatchInsert
    \/ BatchInsertFails
    \/ BatchReturn
    \/ BatchDone
    \/ AddMatch
    \/ AddMatchFails

SpecWriters == Init /\ [][NextWriters]_vars

NextFetch ==
    \/ FetchCall
    \/ FetchAttemptSucceeds
    \/ FetchAttemptFails
    \/ FetchGiveUp

SpecFetch == Init /\ [][NextFetch]_vars

NextParse ==
    \/ ParseCall
    \/ ParseSectionSkipped
    \/ ParseSection
    \/ ParseTableNoBody
    \/ ParseTable
    \/ ParseRowSkipped
    \/ ParseRowAppended
    \/ ParseRowsEnd
    \/ ParseTablesEnd
    \/ ParseReturn

SpecParse == Init /\ [][NextParse]_vars

NextExtract == ExtractCall

NextDiscover == DiscoverCall

NextPage == PageCall

NextDate == DateCall

NextEnum ==
    \/ EnumCall
    \/ EnumYearFails
    \/ EnumYearFetched
    \/ EnumReturn
    \/ EnumDone

SpecEnum == Init /\ [][NextEnum]_vars

NextLoop ==
    \/ LoopCall
    \/ LoopPageFetchFails
    \/ LoopPageParsed
    \/ LoopReturn

SpecLoop == Init /\ [][NextLoop]_vars

SpecDate == Init /\ [][NextDate]_vars

SpecPage == Init /\ [][NextPage]_vars

SpecDiscover == Init /\ [][NextDiscover]_vars

SpecExtract == Init /\ [][NextExtract]_vars

\* A batch run steps only while it is not interrupted.
NextRun ==
    \/ RunCall
    \/ RunTournament
    \/ RunPageFetchFails
    \/ RunPageParseEmpty
    \/ RunPageParsed
    \/ RunTournamentCollected
    \/ RunTournamentEmpty
    \/ RunTournamentSave
    \/ RunCollected
    \/ RunFetchedAll
    \/ RunDryRun
    \/ RunSave
    \/ r_pc = "saving" /\ BatchLookup
    \/ r_pc = "saving" /\ BatchSkip
    \/ r_pc = "saving" /\ BatchInsert
    \/ r_pc = "saving" /\ BatchReturn
    \/ RunSaved
    \/ RunUpdated
    \/ RunInterrupt

\* A run starts from the rows earlier runs left: none, or those of one page,
\* or the first of them when the earlier run was cut short.
InitRun ==
    /\ \E k \in 0..Len(PageRecords(<<1, 1>>)) :
          /\ store = SubSeq(PageRecords(<<1, 1>>), 1, k)
          /\ store0 = store
    /\ batch = <<>>
    /\ idx = 0
    /\ found = FALSE
    /\ inserted = 0
    /\ skipped = 0
    /\ pc = "idle"
    /\ calls = 0
    /\ faults = 0
    /\ FetchIdle
    /\ ParseIdle
    /\ RunIdle
    /\ ExtractIdle
    /\ DiscoverIdle
    /\ QueryIdle
    /\ PageIdle
    /\ DateIdle
    /\ EnumIdle
    /\ LoopIdle
    /\ AddIdle
    /\ ConcIdle

SpecRun == InitRun /\ [][NextRun]_vars

NextQuery ==
    \/ MatchExistsCall
    \/ VerifyCall
    \/ StatsCall

\* The queries run on any table add_match and add_matches_batch can have
\* filled.
InitQuery ==
    /\ store \in Tables
    /\ store0 = store
    /\ batch = <<>>
    /\ idx = 0
    /\ found = FALSE
    /\ inserted = 0
    /\ skipped = 0
    /\ pc = "idle"
    /\ calls = 0
    /\ faults = 0
    /\ FetchIdle
    /\ ParseIdle
    /\ RunIdle
    /\ ExtractIdle
    /\ DiscoverIdle
    /\ QueryIdle
    /\ PageIdle
    /\ DateIdle
    /\ EnumIdle
    /\ LoopIdle
    /\ AddIdle
    /\ ConcIdle

SpecQuery == InitQuery /\ [][NextQuery]_vars

(***************************************************************************)
(* Properties of the ingestion layer                                       *)
(***************************************************************************)
\* The natural key of a record: (match_id, map, player) when it has a
\* match_id, else (description, map, player).
NaturalKey(r) ==
    IF Truthy(r.match_id)
    THEN <<"match_id", r.match_id, r.map, r.player>>
    ELSE <<"description", r.description, r.map, r.player>>

PairwiseDistinctKeys(matches) ==
    \A i, j \in 1..Len(matches) :
        i # j => NaturalKey(matches[i]) # NaturalKey(matches[j])

KeyStored(rows, r) == \E i \in 1..Len(rows) : NaturalKey(rows[i]) = NaturalKey(r)

IsPrefix(s, t) == Len(s) <= Len(t) /\ \A i \in 1..Len(s) : s[i] = t[i]

\* C1 (as claimed): a call on a batch of N records with pairwise distinct
\* natural keys, none stored when the call started and no INSERT raising,
\* returns (N, 0); a second call on the same batch then returns (0, N) and
\* leaves the rows as they are.
C1_IdempotentIngestion ==
    ( /\ pc = "returned"
      /\ faults = 0
      /\ PairwiseDistinctKeys(batch)
      /\ \A i \in 1..Len(batch) : ~KeyStored(store0, batch[i]) )
    => /\ inserted = Len(batch)
       /\ skipped = 0
       /\ LET again == AddMatchesBatch(store, batch)
          IN  /\ again.inserted = 0
              /\ again.skipped = Len(batch)
              /\ again.store = store

\* C2: no two stored rows with a match_id share (match_id, map, player), and
\* no two stored rows without one share (description, map, player).
C2_UniqueNaturalKeys ==
    \A i, j \in 1..Len(store) :
        i # j => NaturalKey(store[i]) # NaturalKey(store[j])

\* A call returned after refusing a duplicate, with two rows stored.
C2_Witness ==
    /\ pc = "returned"
    /\ faults = 0
    /\ skipped >= 1
    /\ Len(store) >= 2

\* C3: in every loop iteration a record with a match_id is treated as a
\* duplicate exactly when a stored row has its match_id, map and player
\* (descriptions are not compared), and then it is skipped; a record without
\* a match_id is skipped when a stored row has its description, map and player.
C3_KeyPrecedence ==
    [][ (pc = "decide" /\ pc' = "lookup") =>
          LET match == batch[idx]
              sameId == \E i \in 1..Len(store) :
                            /\ store[i].match_id = match.match_id
                            /\ store[i].map = match.map
                            /\ store[i].player = match.player
              sameDescription == \E i \in 1..Len(store) :
                            /\ store[i].description = match.description
                            /\ store[i].map = match.map
                            /\ store[i].player = match.player
              isSkippedAsDuplicate ==
                  found /\ skipped' = skipped + 1 /\ store' = store
          IN  IF Truthy(match.match_id)
              THEN isSkippedAsDuplicate <=> sameId
              ELSE sameDescription => isSkippedAsDuplicate ]_vars

\* The lookup found a row with the record's match_id, map and player whose
\* description differs from the record's.
C3_Witness ==
    /\ pc = "decide"
    /\ found
    /\ Truthy(batch[idx].match_id)
    /\ \E i \in 1..Len(store) :
          /\ store[i].match_id = batch[idx].match_id
          /\ store[i].map = batch[idx].map
          /\ store[i].player = batch[idx].player
          /\ store[i].description # batch[idx].description

\* C4: no step of add_matches_batch changes or removes a stored row, and a
\* record whose lookup found a row is discarded: the rows stay as they are.
C4_FirstWriteWins ==
    [][ /\ IsPrefix(store, store')
        /\ (pc = "decide" /\ found) => (store' = store /\ skipped' = skipped + 1)
      ]_vars

\* A one-record call was skipped against a stored row with the same natural
\* key and other kills.
C4_Witness ==
    /\ pc = "returned"
    /\ Len(batch) = 1
    /\ skipped = 1
    /\ faults = 0
    /\ \E i \in 1..Len(store) :
          /\ NaturalKey(store[i]) = NaturalKey(batch[1])
          /\ store[i].kills # batch[1].kills

\* C27 (as claimed): whatever add_match and add_matches_batch calls were
\* made, one at a time, no two stored rows have the same natural key.
C27_UniqueAcrossWriters ==
    \A r \in Range(store) :
        Cardinality({i \in 1..Len(store) : NaturalKey(store[i]) = NaturalKey(r)}) = 1

\* C28 (as claimed, for calls in which no INSERT raised): a returned call
\* has inserted + skipped = len(batch) and the table has grown by inserted
\* rows; when its batch holds two records with one natural key that no row
\* had when the call started, exactly one row with that key was added.
C28_CountAccounting ==
    (pc = "returned" /\ faults = 0) =>
        /\ inserted + skipped = Len(batch)
        /\ Len(store) = Len(store0) + inserted
        /\ \A i, j \in 1..Len(batch) :
              ( /\ i < j
                /\ NaturalKey(batch[i]) = NaturalKey(batch[j])
                /\ ~KeyStored(store0, batch[i]) )
              => Cardinality({k \in (Len(store0) + 1)..Len(store) :
                                 NaturalKey(store[k]) = NaturalKey(batch[i])}) = 1

\* C29: two rows of the shared table have the same natural key only when
\* they were inserted by different concurrent calls and the SELECT of the
\* later row ran before the earlier row was inserted; so a call that runs
\* alone never stores two rows with one natural key.
C29_DuplicatesOnlyByInterleaving ==
    \A i, j \in 1..Len(c_store) :
        (i < j /\ NaturalKey(c_store[i]) = NaturalKey(c_store[j])) =>
            /\ c_log[i].by # c_log[j].by
            /\ c_log[j].seen < i
            /\ \A w \in Writers : c_pc[w] # "idle"

\* Both calls have returned, each had a record of one natural key, both
\* SELECTs ran on the empty table, and the table holds two rows of that key.
C29_Witness ==
    /\ \A w \in Writers : c_pc[w] = "returned"
    /\ Len(c_store) = 2
    /\ NaturalKey(c_store[1]) = NaturalKey(c_store[2])
    /\ c_log[1].by # c_log[2].by
    /\ c_log[1].seen = 0
    /\ c_log[2].seen = 0

\* C8 (as claimed): at the start of a call, every permutation of the batch
\* yields the same returned pair and the same number of rows afterwards.
C8_OrderIndependent ==
    (pc = "lookup" /\ idx = 1) =>
        \A p \in Permutations(1..Len(batch)) :
            LET permuted == [i \in 1..Len(batch) |-> batch[p[i]]]
                given == AddMatchesBatch(store, batch)
                other == AddMatchesBatch(store, permuted)
            IN  /\ other.inserted = given.inserted
                /\ other.skipped = given.skipped
                /\ Len(other.store) = Len(given.store)

(***************************************************************************)
(* Properties of the transport                                             *)
(***************************************************************************)
EventsAt(op) == {i \in 1..Len(f_log) : f_log[i].op = op}

\* C5: a fetch_page call with retries = 3 whose every request raised has made
\* exactly 3 requests, slept exactly once between every two consecutive
\* requests and not after the last, each sleep longer than the one before,
\* and returned None.
C5_RetryThenGiveUp ==
    ( /\ f_pc = "returned"
      /\ f_retries = 3
      /\ Cardinality(EventsAt("warning")) = Cardinality(EventsAt("get")) )
    => /\ Cardinality(EventsAt("get")) = 3
       /\ \A i, j \in EventsAt("get") :
             (i < j /\ ~\E m \in EventsAt("get") : i < m /\ m < j)
                => Cardinality({k \in EventsAt("sleep") : i < k /\ k < j}) = 1
       /\ \A k \in EventsAt("sleep") : \E j \in EventsAt("get") : k < j
       /\ \A k, l \in EventsAt("sleep") : k < l => f_log[k].n < f_log[l].n
       /\ f_ret = "None"

\* A call with retries = 3 has given up after three failed requests.
C5_Witness ==
    /\ f_pc = "returned"
    /\ f_retries = 3
    /\ f_ret = "None"
    /\ Cardinality(EventsAt("warning")) = 3

\* C23: at every moment of a fetch_page(url, retries=N) call the requests
\* made are attempts 0, 1, ... in order and fewer than N + 1; a request that
\* did not fail is the last event of the call, which returned the text; a
\* failed attempt k is followed by a sleep of 2^k seconds exactly when
\* k < N - 1, and every sleep is one of these.
C23_RetrySchedule ==
    f_pc # "idle" =>
        /\ Cardinality(EventsAt("get")) <= f_retries
        /\ \A i \in EventsAt("get") :
              /\ f_log[i].n = Cardinality({j \in EventsAt("get") : j < i})
              /\ (i = Len(f_log) \/ f_log[i + 1].op # "warning") =>
                    (i = Len(f_log) /\ f_pc = "returned" /\ f_ret = "text")
        /\ \A i \in EventsAt("warning") :
              /\ f_log[i - 1].op = "get"
              /\ IF f_log[i - 1].n < f_retries - 1
                 THEN /\ Len(f_log) > i
                      /\ f_log[i + 1].op = "sleep"
                      /\ f_log[i + 1].n = <<1, 2, 4, 8, 16, 32>>[f_log[i - 1].n + 1]
                 ELSE Len(f_log) > i => f_log[i + 1].op = "error"
        /\ \A i \in EventsAt("sleep") : f_log[i - 1].op = "warning"
        /\ f_ret = "text" => f_log[Len(f_log)].op = "get"

\* A call with retries = 4 returned the text at its third attempt, after
\* sleeps of 1 and 2 seconds.
C23_Witness ==
    /\ f_pc = "returned"
    /\ f_retries = 4
    /\ f_ret = "text"
    /\ Cardinality(EventsAt("get")) = 3
    /\ {f_log[i].n : i \in EventsAt("sleep")} = {1, 2}

(***************************************************************************)
(* Properties of parse_match_page                                          *)
(***************************************************************************)
\* C9: every record appended while the section's first two parsed scores are
\* (a, b) with a > b has result "Win" in the first team table and "Loss" in
\* the second, and the other way round with b > a; when the two are equal or
\* fewer than two scores parse, every record of the section has result "Tie".
C9_WinnerDetermination ==
    [][ Len(p_matches') > Len(p_matches) =>
          LET record == p_matches'[Len(p_matches')]
          IN  /\ p_matches' = Append(p_matches, record)
              /\ (p_game.higher = "first" /\ p_table.team_idx = 0) => record.result = "Win"
              /\ (p_game.higher = "first" /\ p_table.team_idx = 1) => record.result = "Loss"
              /\ (p_game.higher = "second" /\ p_table.team_idx = 0) => record.result = "Loss"
              /\ (p_game.higher = "second" /\ p_table.team_idx = 1) => record.result = "Win"
              /\ p_game.higher = "none" => record.result = "Tie" ]_vars

\* The first section of a page had the higher score first and gave a "Win"
\* record from its first table and a "Loss" record from its second.
C9_Witness ==
    /\ p_pc = "rows"
    /\ p_seen.sections = 1
    /\ p_game.higher = "first"
    /\ p_table.team_idx = 1
    /\ Len(p_matches) >= 2
    /\ p_matches[1].result = "Win"
    /\ p_matches[Len(p_matches)].result = "Loss"

\* C10: the records of a page are as many as the well-formed rows visited so
\* far (a malformed row adds none, a well-formed row adds one), and the row
\* loop of a table is left only when every row of the table has been visited.
C10_MalformedRowSkip ==
    /\ Len(p_matches) = p_seen.wellformed
    /\ p_pc # "rows" => p_table.unread = 0

\* A table gave a record from a row that came after a malformed row of the
\* same table.
C10_Witness ==
    /\ p_seen.revived
    /\ Len(p_matches) >= 1

\* C11 (as claimed): the kills and the deaths that a row's cells resolve to,
\* which parse_match_page copies into the row's record, are integers greater
\* than or equal to 0.
C11_StatisticValidity ==
    e_pc = "returned" =>
        /\ e_kills # None => e_kills[1] \in Nat
        /\ e_deaths # None => e_deaths[1] \in Nat

(***************************************************************************)
(* Properties of the batch runs                                            *)
(***************************************************************************)
\* The records of a page that were not stored when the run started.
NewRecords(page) == Range(PageRecords(page)) \ Range(r_hist.rows)

\* All of the page's new records are stored, or none of them is.
AllOrNone(page) ==
    \/ NewRecords(page) \cap Range(store) = {}
    \/ NewRecords(page) \subseteq Range(store)

Scraped == UNION {Range(PageRecords(page)) : page \in r_hist.good}

\* C12: a run_scraper call with dry_run=True never calls add_matches_batch
\* and leaves the rows as they were when it started; what it returns is the
\* list of the records it scraped.
C12_DryRunDoesNotPersist ==
    r_run.dry_run =>
        /\ store = r_hist.rows
        /\ calls = 0
        /\ pc = "idle"
        /\ r_pc # "saving"
        /\ r_pc = "done" => (Range(r_all) = Scraped /\ Len(r_all) = Cardinality(Scraped))

\* A dry run returned records that are not stored.
C12_Witness ==
    /\ r_pc = "done"
    /\ r_run.dry_run
    /\ r_all # <<>>
    /\ Range(r_all) \cap Range(store) = {}

\* C13: every record of fetch_tournament_data's all_matches carries the
\* tournament_id argument of the call, and every record a run collects or
\* hands to the store carries the identifier of the tournament whose page
\* produced it.
C13_TournamentTagging ==
    /\ \A i \in 1..Len(r_matches) :
          r_matches[i].tournament_id = TournamentId(r_run.tid)
    /\ \A r \in Range(r_all) \cup Range(batch) :
          \E page \in r_hist.good :
              /\ r.match_id = PageMatchId(page)
              /\ r.tournament_id = TournamentId(page[1])

\* A run collected records of two tournaments, each with its own identifier.
C13_Witness ==
    /\ r_pc = "save"
    /\ \E i, j \in 1..Len(r_all) :
          /\ r_all[i].tournament_id = TournamentId(1)
          /\ r_all[j].tournament_id = TournamentId(2)

\* C14 (as claimed): a run whose tournament_ids argument is the empty list
\* fetches no page (no listing, no match page), produces no record and adds
\* nothing to the store.
C14_EmptyEnumeration ==
    (r_pc # "idle" /\ r_run.given = Some(0)) =>
        /\ r_run.tid = 0
        /\ r_hist.listed = {}
        /\ r_matches = <<>>
        /\ r_all = <<>>
        /\ store = r_hist.rows

\* C17: a step of add_matches_batch in which the INSERT of a record raises
\* counts that record as skipped, not as inserted, and goes on to the lookup
\* of the next record; and a call that returned has counted every record of
\* its batch as inserted or skipped, whatever number of its inserts failed.
C17_StorageFailureContainment ==
    /\ [][faults' = faults + 1 =>
            /\ skipped' = skipped + 1
            /\ inserted' = inserted
            /\ batch' = batch
            /\ idx' = idx + 1
            /\ pc' = "lookup"]_vars
    /\ [](pc = "returned" =>
            /\ idx = Len(batch) + 1
            /\ inserted + skipped = Len(batch)
            /\ faults <= skipped)

\* A call returned after the insert of its first record failed and its
\* second record was stored.
C17_Witness ==
    /\ pc = "returned"
    /\ Len(batch) = 2
    /\ faults = 1
    /\ inserted = 1
    /\ skipped = 1
    /\ store = Append(store0, batch[2])
    /\ ~KeyStored(store0, batch[1])

\* C15: while and after fetch_tournament_data runs for a tournament whose
\* listing page was not fetched or has no link of a match page,
\* get_match_page_urls has returned no url, no match page of the tournament
\* was fetched, and the record list of the tournament is empty.
C15_DiscoveryFailureIsZeroWork ==
    (r_pc # "idle" /\ r_run.tid >= 1 /\ r_run.nomatch) =>
        /\ r_run.urls = 0
        /\ \A page \in r_hist.listed \cup r_hist.failed \cup r_hist.good :
              page[1] # r_run.tid
        /\ r_pc = "pages" => r_matches = <<>>

\* A run went through a tournament without match links and is back in its
\* tournament loop, after a tournament whose page gave records.
C15_Witness ==
    /\ r_pc = "tournaments"
    /\ r_run.tid = 2
    /\ r_run.nomatch
    /\ \E page \in r_hist.good : page[1] = 1

(***************************************************************************)
(* Properties of get_match_page_urls                                       *)
(***************************************************************************)
\* C16: the returned list holds the url of every link of the listing that
\* the samples call a match page (a path that starts with /digits/ and holds
\* no /event/), the url of no other link, and each url once.
C16_DiscoveryResult ==
    (d_pc = "returned" /\ d_listing # None) =>
        /\ Range(d_urls) = {<<VLR_BASE_URL>> \o l.href : l \in {m \in Range(d_listing[1]) : m.matchPage}}
        /\ Len(d_urls) = Cardinality(Range(d_urls))

\* A listing that links the same match page twice, and another one, gave
\* two urls.
C16_Witness ==
    /\ d_pc = "returned"
    /\ d_listing # None
    /\ Len(d_urls) = 2
    /\ \E i, j \in 1..Len(d_listing[1]) :
          i # j /\ d_listing[1][i] = d_listing[1][j] /\ d_listing[1][i].matchPage

(***************************************************************************)
(* Properties of parse_match_page on whole pages                           *)
(***************************************************************************)
\* The page has two named sections of two tables with five well-formed rows
\* each, scores 13-2 and 9-13, and a timestamp.
EndToEndPage(html) ==
    /\ Len(html.games) = 2
    /\ html.page.match_date # None
    /\ html.games[1].score.parsed = <<13, 2>>
    /\ html.games[2].score.parsed = <<9, 13>>
    /\ \A g \in 1..2 :
          /\ html.games[g].named
          /\ Len(html.games[g].tables) = 2
          /\ \A t \in 1..2 :
                /\ html.games[g].tables[t] # None
                /\ Len(html.games[g].tables[t][1]) = 5
                /\ \A r \in 1..5 : html.games[g].tables[t][1][r].wellformed

\* C19: parse_match_page on such a page returns 20 records: those of the
\* first section's first table are "Win" and of its second table "Loss",
\* those of the second section's first table are "Loss" and of its second
\* table "Win", and all have the match_id of the first and the page's date.
C19_EndToEndExtraction ==
    (h_pc = "returned" /\ EndToEndPage(h_html)) =>
        /\ Len(h_matches) = 20
        /\ \A i \in 1..20 :
              /\ h_matches[i].result =
                    (IF i \in 1..5 \/ i \in 16..20 THEN "Win" ELSE "Loss")
              /\ h_matches[i].match_id = h_matches[1].match_id
              /\ h_matches[i].match_date = h_html.page.match_date
              /\ h_matches[i].player =
                    h_html.games[((i - 1) \div 10) + 1].tables[(((i - 1) \div 5) % 2) + 1][1][((i - 1) % 5) + 1].cell0

\* parse_match_page returned for such a page whose url holds a match id.
C19_Witness ==
    /\ h_pc = "returned"
    /\ EndToEndPage(h_html)
    /\ Len(h_matches) = 20
    /\ h_matches[20].match_id # None
    /\ h_matches[20].result = "Win"
    /\ h_matches[6].result = "Loss"

(***************************************************************************)
(* Properties of extract_date_from_match_page                              *)
(***************************************************************************)
\* C21 (as claimed): a page whose div has a timestamp that denotes a date
\* gives that date, whatever its text; a page without one, whose div text
\* denotes a month and a day of the current year without a year, gives that
\* day of the current year.
C21_DateFallback ==
    (t_pc = "returned" /\ t_soup.date_div # None) =>
        LET div == t_soup.date_div[1]
        IN  /\ div.date # None => t_date = div.date
            /\ (/\ div.date = None
                /\ div.denotes # None
                /\ div.denotes[1].year = None
                /\ div.denotes[1].day <= DaysIn(div.denotes[1].month, t_now)) =>
                  t_date = Some(Padded(t_now, 4) \o <<"-">>
                                  \o Padded(div.denotes[1].month, 2) \o <<"-">>
                                  \o Padded(div.denotes[1].day, 2))

(***************************************************************************)
(* Properties of discover_all_tier1_tournaments                            *)
(***************************************************************************)
\* The years of the history that did not fail.
Succeeded == {k \in 1..Len(y_hist) : y_hist[k] # None}

\* C22: a call that returned went through every year, failed or not, and
\* its result maps exactly the ids that the page of some succeeded year
\* lists, each to the name on the page of the last succeeded year that
\* lists it; failed years add nothing.
C22_EnumeratorFailureIsolation ==
    y_pc = "returned" =>
        /\ Len(y_hist) = MaxYears
        /\ \A kv \in y_all :
              \E k \in Succeeded :
                 /\ kv \in y_hist[k][1]
                 /\ \A j \in Succeeded :
                       j > k => \A o \in y_hist[j][1] : o[1] # kv[1]
        /\ \A k \in Succeeded :
              \A o \in y_hist[k][1] : \E kv \in y_all : kv[1] = o[1]

\* A call returned after its first year failed and its last year gave
\* tournaments.
C22_Witness ==
    /\ y_pc = "returned"
    /\ y_hist[1] = None
    /\ y_hist[Len(y_hist)] # None
    /\ y_all # {}

(***************************************************************************)
(* Properties of the page loop of fetch_tournament_data                    *)
(***************************************************************************)
\* C24 (as claimed): with delay > 0, between every two consecutive
\* fetch_page calls of the loop there is a sleep of delay seconds, whatever
\* the earlier of the two returned.
C24_CourtesyDelay ==
    l_delay > 0 =>
        \A i, j \in 1..Len(l_log) :
            ( /\ i < j
              /\ l_log[i].op = "fetch_page"
              /\ l_log[j].op = "fetch_page"
              /\ \A m \in (i + 1)..(j - 1) : l_log[m].op # "fetch_page" )
            => \E m \in (i + 1)..(j - 1) : l_log[m] = Event("sleep", l_delay, "-")

\* C25 (as claimed): every record parse_match_page returns has a non-empty
\* description, map and player, whatever the page.
C25_NonEmptyIdentifyingFields ==
    h_pc = "returned" =>
        \A i \in 1..Len(h_matches) :
            /\ h_matches[i].description # <<>>
            /\ h_matches[i].map # <<>>
            /\ h_matches[i].player # <<>>

\* C26: the records one parse_match_page call returns all have the same
\* match_id, match_date and description, and their match_date is the one
\* returned alongside the list.
C26_PageLevelValuesShared ==
    h_pc = "returned" =>
        \A i, j \in 1..Len(h_matches) :
            /\ h_matches[i].match_id = h_matches[j].match_id
            /\ h_matches[i].match_date = h_matches[j].match_date
            /\ h_matches[i].description = h_matches[j].description
            /\ h_matches[i].match_date = h_date

\* A call returned records of two sections, of winners and losers, for a
\* page with a date.
C26_Witness ==
    /\ h_pc = "returned"
    /\ h_date # None
    /\ Len(h_html.games) = 2
    /\ \E i, j \in 1..Len(h_matches) :
          /\ h_matches[i].result = "Win"
          /\ h_matches[j].result = "Loss"
          /\ h_matches[i].team # h_matches[j].team

(***************************************************************************)
(* Properties of the queries                                               *)
(***************************************************************************)
\* C18 (as claimed): match_exists never raises, and what it returns is
\* whether a stored row has the natural key of the query.
C18_ExistenceLookupTotal ==
    /\ x_pc # "raised"
    /\ x_pc = "returned" =>
          x_result = Some(\E i \in 1..Len(store) :
                            /\ store[i].match_id = x_query.match_id
                            /\ store[i].map = x_query.map_name
                            /\ store[i].player = x_query.player)

\* C20 (as claimed): verify_kill_death_balance returns the integer sum of
\* kills minus sum of deaths of the stored rows, the empty table included,
\* and that is the kd_balance of get_database_stats on the same table.
C20_ConsistencyCheckValue ==
    v_pc = "returned" =>
        /\ v_result = Some(Total(Column(store, "kills")) - Total(Column(store, "deaths")))
        /\ s_pc = "returned" => v_result = Some(s_stats.kd_balance)

====
